---- MODULE Spec2Model ----
(***************************************************************************)
(* A state-machine model of the smartscreen display streaming engine:      *)
(* StreamController (stream_controller.py) supervising RevAProtocol        *)
(* (rev_a.py) over DisplayTransport (transport.py), with the tile differ   *)
(* compute_dirty_rects (rgb565.py).                                        *)
(*                                                                         *)
(* Every public operation of the controller is executed statement by       *)
(* statement: pc is the call stack of the thread that holds the supervisor *)
(* lock (empty when no operation is in progress), and each action is one   *)
(* statement (or one transport call) of the source.  Status fields are     *)
(* therefore visible in every intermediate value a lock-free reader of     *)
(* controller.status can observe.                                          *)
(*                                                                         *)
(* Geometry is scaled: the product runs 800x480 with 32-pixel tiles; the   *)
(* model runs Width x Height pixels with Tile-pixel tiles so that frames   *)
(* stay small while the differ still has several tiles, a clipped edge     *)
(* tile, and both sides of the max_ratio cutover.                          *)
(***************************************************************************)
EXTENDS Integers, Sequences, FiniteSets, TLC

\* ------------------------------------------------------------------ bounds
Width == 3
Height == 5
Tile == 2
MaxEvents == 2

\* ------------------------------------------------------- program constants
MaxRecoverAttempts == 5
BackoffBaseMs == 250
BackoffCapMs == 4000
JitterMaxMs == 150
ForceAfterRecover == 3
ForceAfterOverload == 2
OverloadChunkFloor == 256
PollMin == 200
PollMax == 2000
MaxRatioPct == 35
CMD_HELLO == 69
CMD_SET_ORIENTATION == 121
CMD_DISPLAY_BITMAP == 197
CMD_SET_BRIGHTNESS == 110
LANDSCAPE == 2
VID_1A86 == 6790
PID_5722 == 22306
CpuPercentMax == 8
RssMbMax == 300
FpsMin == 5
FpsMax == 10
SamplePollMin == 200
SamplePollMax == 2000
OverloadPollStep == 25
FpsPollStep == 50

\* ------------------------------------------------------------ small helpers
Min2(a, b) == IF a <= b THEN a ELSE b
Max2(a, b) == IF a >= b THEN a ELSE b

RECURSIVE Pow2(_)
Pow2(n) == IF n <= 0 THEN 1 ELSE 2 * Pow2(n - 1)

\* bytes[lo:hi] of Python (0-based, hi exclusive, clipped to the buffer)
Slice(s, lo, hi) ==
  LET h == Min2(hi, Len(s))
  IN IF lo >= h THEN <<>> ELSE [i \in 1..(h - lo) |-> s[lo + i]]

\* the last n entries of a list: Python's s[-n:]
LastN(s, n) == IF Len(s) <= n THEN s ELSE [i \in 1..n |-> s[Len(s) - n + i]]

NoFrame == <<-1>>
NoError == ""
NoPort == ""

\* _pack_command losing the two high bits of ey
PackCommand_LowEy(cmd, x, y, ex, ey) ==
  << (x \div 4) % 256,
     (((x % 4) * 64) + (y \div 16)) % 256,
     (((y % 16) * 16) + (ex \div 64)) % 256,
     ((ex % 64) * 4) % 256,
     ey % 256,
     cmd % 256 >>

\* ------------------------------------------------------------- wire codec
\* RevAProtocol._pack_command, for non-negative coordinates
PackCommand(cmd, x, y, ex, ey) ==
  << (x \div 4) % 256,
     (((x % 4) * 64) + (y \div 16)) % 256,
     (((y % 16) * 16) + (ex \div 64)) % 256,
     (((ex % 64) * 4) + (ey \div 256)) % 256,
     ey % 256,
     cmd % 256 >>

HelloPayload == [i \in 1..6 |-> CMD_HELLO]

\* the 16-byte record RevAProtocol.set_orientation writes (landscape)
OrientationPayload(width, height) ==
  PackCommand(CMD_SET_ORIENTATION, 0, 0, 0, 0)
    \o << LANDSCAPE + 100,
          (width \div 256) % 256, width % 256,
          (height \div 256) % 256, height % 256,
          0, 0, 0, 0, 0 >>

\* level_absolute of RevAProtocol.set_brightness: int() truncates toward zero
BrightnessLevel(percent) ==
  LET p == Max2(0, Min2(100, percent))
  IN 255 - (((p * 255) + 99) \div 100)

SubRevisionName(response) ==
  IF response = <<1, 1, 1, 1, 1, 1>> THEN "usbmonitor_3_5"
  ELSE IF response = <<2, 2, 2, 2, 2, 2>> THEN "usbmonitor_5"
  ELSE IF response = <<3, 3, 3, 3, 3, 3>> THEN "usbmonitor_7"
  ELSE "unknown"

HelloOk(response) == Len(response) \in {0, 6}

\* ------------------------------------------------------------ frame differ
FrameLen == Width * Height * 2

\* origins range(0, n, tile)
Origins(n, tile) == {v \in 0..(n - 1) : v % tile = 0}

\* a tile test that compares the first row of the tile only
TileChanged_FirstRow(previous_frame, current_frame, width, height, tile, x, y) ==
  LET w == Min2(tile, width - x)
      start == y * (width * 2) + x * 2
      end == start + w * 2
  IN Slice(previous_frame, start, end) # Slice(current_frame, start, end)

\* lines 113-121 of compute_dirty_rects: does the tile at (x, y) differ in any row
TileChanged(previous_frame, current_frame, width, height, tile, x, y) ==
  LET w == Min2(tile, width - x)
      h == Min2(tile, height - y)
      stride == width * 2
  IN \E row \in 0..(h - 1) :
       LET start == (y + row) * stride + x * 2
           end == start + w * 2
       IN Slice(previous_frame, start, end) # Slice(current_frame, start, end)

ChangedTiles(previous_frame, current_frame, width, height, tile) ==
  {t \in Origins(width, tile) \X Origins(height, tile) :
     TileChanged(previous_frame, current_frame, width, height, tile, t[1], t[2])}

SetMin(S) == CHOOSE v \in S : \A u \in S : v <= u
SetMax(S) == CHOOSE v \in S : \A u \in S : v >= u

\* compute_dirty_rects whose rect ends at the origin of the last changed tile
ComputeDirtyRects_NoLastTile(previous_frame, current_frame, width, height, tile) ==
  LET changed_tiles == ChangedTiles(previous_frame, current_frame, width, height, tile)
      changed_pixels == Cardinality(changed_tiles) * tile * tile
      xs == {t[1] : t \in changed_tiles}
      ys == {t[2] : t \in changed_tiles}
  IN IF changed_tiles = {} THEN <<>>
     ELSE IF changed_pixels * 100 > MaxRatioPct * (width * height)
       THEN << [x |-> 0, y |-> 0, w |-> width, h |-> height] >>
     ELSE << [x |-> SetMin(xs), y |-> SetMin(ys),
              w |-> Min2(width - SetMin(xs), (SetMax(xs) - SetMin(xs)) + 1),
              h |-> Min2(height - SetMin(ys), (SetMax(ys) - SetMin(ys)) + 1)] >>

\* compute_dirty_rects taking the changed area against the frame's bytes
ComputeDirtyRects_ByteRatio(previous_frame, current_frame, width, height, tile) ==
  LET changed_tiles == ChangedTiles(previous_frame, current_frame, width, height, tile)
      changed_pixels == Cardinality(changed_tiles) * tile * tile
      xs == {t[1] : t \in changed_tiles}
      ys == {t[2] : t \in changed_tiles}
  IN IF changed_tiles = {} THEN <<>>
     ELSE IF changed_pixels * 100 > MaxRatioPct * (width * height * 2)
       THEN << [x |-> 0, y |-> 0, w |-> width, h |-> height] >>
     ELSE << [x |-> SetMin(xs), y |-> SetMin(ys),
              w |-> Min2(width - SetMin(xs), (SetMax(xs) - SetMin(xs)) + tile),
              h |-> Min2(height - SetMin(ys), (SetMax(ys) - SetMin(ys)) + tile)] >>

\* compute_dirty_rects for frames of equal length (a length mismatch raises)
ComputeDirtyRects(previous_frame, current_frame, width, height, tile) ==
  LET changed_tiles == ChangedTiles(previous_frame, current_frame, width, height, tile)
      changed_pixels == Cardinality(changed_tiles) * tile * tile
      xs == {t[1] : t \in changed_tiles}
      ys == {t[2] : t \in changed_tiles}
  IN IF changed_tiles = {} THEN <<>>
     ELSE IF changed_pixels * 100 > MaxRatioPct * (width * height)
       THEN << [x |-> 0, y |-> 0, w |-> width, h |-> height] >>
     ELSE << [x |-> SetMin(xs), y |-> SetMin(ys),
              w |-> Min2(width - SetMin(xs), (SetMax(xs) - SetMin(xs)) + tile),
              h |-> Min2(height - SetMin(ys), (SetMax(ys) - SetMin(ys)) + tile)] >>

\* chunking that leaves out a final short chunk
Chunks_WholeOnly(bytes, chunk_size) ==
  LET n == Len(bytes) \div chunk_size
  IN [k \in 1..n |-> [kind |-> "pixels",
                      data |-> Slice(bytes, (k - 1) * chunk_size, k * chunk_size)]]

\* -------------------------------------------------- transmissions as writes
\* the chunks range(0, len, chunk_size) cuts a buffer into
Chunks(bytes, chunk_size) ==
  LET n == (Len(bytes) + chunk_size - 1) \div chunk_size
  IN [k \in 1..n |-> [kind |-> "pixels",
                      data |-> Slice(bytes, (k - 1) * chunk_size, k * chunk_size)]]

WindowWrite(x0, y0, x1, y1) ==
  [kind |-> "window", data |-> PackCommand(CMD_DISPLAY_BITMAP, x0, y0, x1, y1)]

\* the transport writes of RevAProtocol.send_frame, in order
FrameWrites(frame, width, height, chunk_size) ==
  << WindowWrite(0, 0, width - 1, height - 1) >> \o Chunks(frame, chunk_size)

\* RowWrites reading the source frame with the rect's stride
RECURSIVE RowWrites_RectStride(_, _, _, _, _, _)
RowWrites_RectStride(frame, width, rect, row, last, chunk_size) ==
  IF row > last THEN <<>>
  ELSE LET src_start == row * (rect.w * 2) + rect.x * 2
           src_end == src_start + rect.w * 2
       IN Chunks(Slice(frame, src_start, src_end), chunk_size)
            \o RowWrites_RectStride(frame, width, rect, row + 1, last, chunk_size)

RECURSIVE RowWrites(_, _, _, _, _, _)
RowWrites(frame, width, rect, row, last, chunk_size) ==
  IF row > last THEN <<>>
  ELSE LET src_start == row * (width * 2) + rect.x * 2
           src_end == src_start + rect.w * 2
       IN Chunks(Slice(frame, src_start, src_end), chunk_size)
            \o RowWrites(frame, width, rect, row + 1, last, chunk_size)

\* the transport writes of RevAProtocol.send_dirty_rects, in order
RECURSIVE DirtyWrites(_, _, _, _)
DirtyWrites(rects, frame, width, chunk_size) ==
  IF rects = <<>> THEN <<>>
  ELSE LET rect == Head(rects)
       IN << WindowWrite(rect.x, rect.y, rect.x + rect.w - 1, rect.y + rect.h - 1) >>
            \o RowWrites(frame, width, rect, rect.y, rect.y + rect.h - 1, chunk_size)
            \o DirtyWrites(Tail(rects), frame, width, chunk_size)

\* auto_select_device: first device by VID/PID, else first with the hwid marker
RECURSIVE FirstMatch(_, _)
FirstMatch(devices, byVid) ==
  IF devices = <<>> THEN NoPort
  ELSE IF (byVid /\ Head(devices).vid = VID_1A86 /\ Head(devices).pid = PID_5722)
          \/ (~byVid /\ Head(devices).marker)
       THEN Head(devices).device
       ELSE FirstMatch(Tail(devices), byVid)

\* auto_select_device taking the first device that matches either test, in one pass
AutoSelectDevice_OnePass(devices) ==
  IF devices = <<>> THEN NoPort
  ELSE LET hits == {i \in 1..Len(devices) :
                      \/ devices[i].vid = VID_1A86 /\ devices[i].pid = PID_5722
                      \/ devices[i].marker}
       IN IF hits = {} THEN NoPort ELSE devices[SetMin(hits)].device

AutoSelectDevice(devices) ==
  IF FirstMatch(devices, TRUE) # NoPort THEN FirstMatch(devices, TRUE)
  ELSE FirstMatch(devices, FALSE)

\* ------------------------------------------------------------------ inputs
FrameA == [i \in 1..FrameLen |-> 0]
FrameB == [i \in 1..FrameLen |-> IF i = 1 THEN 1 ELSE 0]
FrameD == [i \in 1..FrameLen |-> IF i = FrameLen THEN 1 ELSE 0]
FrameBad == <<0, 0>>
Frames == {FrameA, FrameB, FrameD, FrameBad}

DevVid(port) == [device |-> port, vid |-> VID_1A86, pid |-> PID_5722, marker |-> FALSE]
DevMarker(port) == [device |-> port, vid |-> 0, pid |-> 0, marker |-> TRUE]
DeviceLists == { <<>>, <<DevMarker("p2"), DevVid("p1")>>, <<DevMarker("p2")>> }

Echoes == { <<>>, <<2, 2, 2, 2, 2, 2>>, <<2, 2, 2>> }
JitterMs == {0, JitterMaxMs}
Percents == {40}
Overrides == {NoPort, "p2"}

Budget(poll, m, over) ==
  [recommended_poll_ms |-> poll, recommended_mode |-> m, overloaded |-> over,
   cpu_percent |-> IF over THEN 90 ELSE 1, rss_mb |-> 100]
Budgets == { Budget(500, "adaptive", FALSE), Budget(100, "full", FALSE),
             Budget(2500, "adaptive", TRUE) }
NoBudget == Budget(0, "", FALSE)

\* ------------------------------------------------------------------- state
VARIABLES
  pc,                            \* call stack of the thread holding _lock; <<>> when idle
  call,                          \* the public operation in progress or last finished
  loc,                           \* locals of the running functions
  stats,                         \* the SendStats being filled / returned
  status,                        \* StreamController._status
  serialPort,                    \* DisplayTransport._serial: the port it is open on
  session,                       \* what the device has received since the port was opened
  device,                        \* the device's display window and framebuffer
  proto,                         \* RevAProtocol fields
  mode, poll_ms, port_override,  \* StreamController public attributes
  previous_frame,                \* StreamController._previous_frame
  force_full_frames_remaining,   \* StreamController._force_full_frames_remaining
  events,                        \* StreamController._events
  wire,                          \* writes of the operation on the port as now opened
  sinceRecover,                  \* sends returned since the last recovered send
  env                            \* what the surroundings may do: inputs and answers

vars == << pc, call, loc, stats, status, serialPort, session, device, proto, mode, poll_ms,
           port_override, previous_frame, force_full_frames_remaining, events, wire,
           sinceRecover, env >>

\* the display of a closed or newly opened port: no window, content not known
DeviceOff == [win |-> <<>>, pos |-> 0, fb |-> [i \in 1..FrameLen |-> -1]]

LocInit == [port |-> NoPort, attempt |-> 0, exc |-> NoError, rects |-> <<>>, wi |-> 0]
StatsInit == [bytes_sent |-> 0, packets_sent |-> 0, retries |-> 0, mode |-> "full"]
\* the operation in progress: its arguments, its outcome, why _send_once chose its
\* path (diff, kept while that transmission runs), how often the operation entered
\* the recovery loop (recoveries) and the attempt numbers of the recover_wait
\* events it logged (waits)
CallInit == [op |-> "none", status |-> "returned", err |-> NoError, frame |-> NoFrame,
             percent |-> 0, budget |-> NoBudget, recoveries |-> 0, waits |-> <<>>,
             diff |-> "", thread |-> "t1"]
StatusInit == [connected |-> FALSE, port |-> NoPort, state |-> "Disconnected",
               last_error |-> NoError, backoff_ms |-> 0, recovery_attempts |-> 0]

\* the state after StreamController.__init__ (defaults of lines 32-57)
Constructed ==
  /\ pc = <<>>
  /\ call = CallInit
  /\ loc = LocInit
  /\ stats = StatsInit
  /\ status = StatusInit
  /\ serialPort = NoPort
  /\ session = "closed"
  /\ device = DeviceOff
  /\ proto = [state |-> "Disconnected", chunk_size |-> Width * 8, sub_revision |-> "unknown"]
  /\ mode = "adaptive"
  /\ poll_ms = 500
  /\ port_override = NoPort
  /\ previous_frame = NoFrame
  /\ force_full_frames_remaining = 0
  /\ events = <<>>
  /\ wire = <<>>

\* the streaming surroundings: one display that may be unplugged, may answer HELLO
\* with silence or a short echo, and a link that may fail at any call
StreamEnv ==
  [frames |-> Frames, budgets |-> Budgets, percents |-> Percents,
   devices |-> { <<>>, <<DevVid("p1")>> }, echoes |-> { <<>>, <<2, 2, 2>> },
   overrides |-> {NoPort}, jitter |-> JitterMs, max_events |-> MaxEvents,
   waiting |-> {}]

Init ==
  /\ Constructed
  /\ sinceRecover = [n |-> -2, raised |-> FALSE]
  /\ env = StreamEnv

\* the same controller, with the count of sends since the last recovery kept
RecoveryEnv ==
  [StreamEnv EXCEPT !.frames = {FrameA, FrameB},
                    !.budgets = {Budget(500, "adaptive", FALSE),
                                 Budget(2500, "adaptive", TRUE)}]

InitRecovery ==
  /\ Constructed
  /\ sinceRecover = [n |-> -1, raised |-> FALSE]
  /\ env = RecoveryEnv

\* ------------------------------------------------------- control-flow helpers
Idle == pc = <<>>
At(l) == pc # <<>> /\ Head(pc) = l

\* Handler with the retry of line 151 inside the try as well
Handler_RetryGuarded(l) ==
  IF l \in {"send_159", "send_152"} THEN "send_147"
  ELSE IF l \in {"rec_202", "rec_203"} THEN "rec_209"
  ELSE ""

\* the except clause guarding a caller that waits at label l ("" when none)
Handler(l) ==
  IF l = "send_159" THEN "send_147"
  ELSE IF l \in {"rec_202", "rec_203"} THEN "rec_209"
  ELSE ""

\* the stack after an exception leaves the frames of s that have no handler
RECURSIVE Unwind(_)
Unwind(s) ==
  IF s = <<>> THEN <<>>
  ELSE IF Handler(Head(s)) # "" THEN <<Handler(Head(s))>> \o Tail(s)
  ELSE Unwind(Tail(s))

\* bookkeeping of sinceRecover when a public operation ends (n = -2: not kept)
SinceRecoverAfter(outcome) ==
  IF sinceRecover.n = -2 THEN sinceRecover
  ELSE IF call.op = "send" /\ outcome = "returned" /\ call.recoveries > 0
    THEN [n |-> 0, raised |-> FALSE]
  ELSE IF call.op = "send" /\ outcome = "returned"
    THEN IF sinceRecover.n \in 0..2 THEN [sinceRecover EXCEPT !.n = @ + 1]
         ELSE [n |-> -1, raised |-> FALSE]
  ELSE IF call.op = "send" /\ sinceRecover.n >= 0
    THEN [sinceRecover EXCEPT !.raised = TRUE]
  ELSE IF call.op = "apply_budget" /\ call.budget.overloaded
    THEN [n |-> -1, raised |-> FALSE]
  ELSE sinceRecover

Finish(outcome, e) ==
  /\ call' = [call EXCEPT !.status = outcome, !.err = e]
  /\ loc' = LocInit
  /\ sinceRecover' = SinceRecoverAfter(outcome)

Goto(l) == pc' = <<l>> \o Tail(pc)
CallFn(entry, cont) == pc' = <<entry, cont>> \o Tail(pc)

\* return from the running function, whose locals l go out of scope; releases the
\* lock when the function is the operation itself
ReturnWith(l) ==
  /\ pc' = Tail(pc)
  /\ IF Tail(pc) = <<>> THEN Finish("returned", NoError)
     ELSE /\ loc' = l
          /\ UNCHANGED <<call, sinceRecover>>

Return == ReturnWith(loc)

\* raise e from the running function
Raise(e) ==
  /\ pc' = Unwind(Tail(pc))
  /\ IF Unwind(Tail(pc)) = <<>> THEN Finish("raised", e)
     ELSE /\ loc' = [loc EXCEPT !.exc = e]
          /\ UNCHANGED <<call, sinceRecover>>

\* _log_event putting the new row at the front of the list
LogEvent_Prepend(row) ==
  events' = LastN(<<[state |-> status.state] @@ row>> \o events, env.max_events)

\* StreamController._log_event
LogEvent(row) ==
  events' = LastN(Append(events, [state |-> status.state] @@ row), env.max_events)

\* the display behind the port, kept when the surroundings ask for it
\* (env.framebuffer): the window of the last DISPLAY_BITMAP header, the bytes
\* received for it, and the framebuffer, -1 where the content is not known. It is
\* changed by window and pixel writes only, and not known once the port is closed
TracksDevice == "framebuffer" \in DOMAIN env

\* the window (x0, y0, x1, y1) a 6-byte header of _pack_command names
DeviceWindow(b) ==
  << b[1] * 4 + (b[2] \div 64),
     (b[2] % 64) * 16 + (b[3] \div 16),
     (b[3] % 16) * 64 + (b[4] \div 4),
     (b[4] % 4) * 256 + b[5] >>

\* the framebuffer index of byte k (from 0) of a window, rows in order
DevicePlace(win, k) ==
  LET row_len == (win[3] - win[1] + 1) * 2
  IN (win[2] + (k \div row_len)) * (Width * 2) + win[1] * 2 + (k % row_len) + 1

DeviceAfter(w) ==
  IF ~TracksDevice THEN device
  ELSE IF w.kind = "window"
    THEN [device EXCEPT !.win = DeviceWindow(w.data), !.pos = 0]
  ELSE IF w.kind = "pixels" /\ device.win # <<>>
    THEN LET win == device.win
             size == (win[3] - win[1] + 1) * (win[4] - win[2] + 1) * 2
             at(i) == {k \in 1..Len(w.data) :
                         /\ device.pos + k - 1 < size
                         /\ DevicePlace(win, device.pos + k - 1) = i}
         IN [device EXCEPT
               !.pos = @ + Len(w.data),
               !.fb = [i \in 1..FrameLen |->
                         IF at(i) # {} THEN w.data[CHOOSE k \in at(i) : TRUE]
                         ELSE device.fb[i]]]
  ELSE device

\* what the device has seen of the handshake after one more write
SessionAfter(w) ==
  IF session = "open" /\ w.data = HelloPayload THEN "hello"
  ELSE IF session = "hello" /\ Len(w.data) = 16 /\ w.data[6] = CMD_SET_ORIENTATION
    THEN "ready"
  ELSE session

\* DisplayTransport.write succeeding
Written(w) ==
  /\ serialPort # NoPort
  /\ wire' = Append(wire, w)
  /\ session' = SessionAfter(w)
  /\ device' = DeviceAfter(w)

NewCall(op) == [CallInit EXCEPT !.op = op, !.status = "running"]

\* an operation that starts without taking the lock
BeginOp_NoLock(op, entry) ==
  /\ pc' = <<entry>> \o pc
  /\ loc' = LocInit
  /\ stats' = StatsInit
  /\ wire' = <<>>
  /\ UNCHANGED << status, serialPort, session, device, proto, mode, poll_ms, port_override,
                  previous_frame, force_full_frames_remaining, events, sinceRecover, env >>

BeginOp(op, entry) ==
  /\ Idle
  /\ pc' = <<entry>>
  /\ loc' = LocInit
  /\ stats' = StatsInit
  /\ wire' = <<>>
  /\ UNCHANGED << status, serialPort, session, device, proto, mode, poll_ms, port_override,
                  previous_frame, force_full_frames_remaining, events, sinceRecover, env >>

\* --------------------------------------------------- StreamController.connect
ConnectCall ==
  /\ BeginOp("connect", "connect_79")
  /\ call' = NewCall("connect")

Connect_79 ==
  /\ At("connect_79")
  /\ status' = [status EXCEPT !.state = "Connecting"]
  /\ Goto("connect_80")
  /\ UNCHANGED << call, loc, stats, serialPort, session, device, proto, mode, poll_ms,
                  port_override, previous_frame, force_full_frames_remaining, events,
                  wire, sinceRecover, env >>

Connect_80 ==
  /\ At("connect_80")
  /\ LogEvent([event |-> "connect_start"])
  /\ Goto("connect_82")
  /\ UNCHANGED << call, loc, stats, status, serialPort, session, device, proto, mode, poll_ms,
                  port_override, previous_frame, force_full_frames_remaining, wire,
                  sinceRecover, env >>

\* lines 82-88: resolve the port; no compatible device raises
Connect_82 ==
  /\ At("connect_82")
  /\ \E devices \in env.devices :
       LET port == IF port_override # NoPort THEN port_override
                   ELSE AutoSelectDevice(devices)
       IN IF port = NoPort
            THEN /\ status' = [status EXCEPT !.state = "Disconnected"]
                 /\ Raise("nodevice")
            ELSE /\ status' = status
                 /\ loc' = [loc EXCEPT !.port = port]
                 /\ Goto("connect_90")
                 /\ UNCHANGED << call, sinceRecover, env >>
  /\ UNCHANGED << stats, serialPort, session, device, proto, mode, poll_ms, port_override,
                  previous_frame, force_full_frames_remaining, events, wire, env >>

\* DisplayTransport.open: a no-op when already open, else opens the port or raises
Connect_90 ==
  /\ At("connect_90")
  /\ IF serialPort # NoPort
       THEN /\ Goto("connect_91")
            /\ UNCHANGED << serialPort, session, device, call, loc, sinceRecover, env >>
       ELSE \/ /\ serialPort' = loc.port
               /\ session' = "open"
               /\ device' = DeviceOff
               /\ Goto("connect_91")
               /\ UNCHANGED << call, loc, sinceRecover, env >>
            \/ /\ Raise("io")
               /\ UNCHANGED << serialPort, session, device, env >>
  /\ UNCHANGED << stats, status, proto, mode, poll_ms, port_override, previous_frame,
                  force_full_frames_remaining, events, wire, env >>

\* Connect_91 with connected set as soon as the port is open
Connect_91_ConnectedEarly ==
  /\ At("connect_91")
  /\ status' = [status EXCEPT !.state = "PortOpen", !.connected = TRUE]
  /\ Goto("connect_92")
  /\ UNCHANGED << call, loc, stats, serialPort, session, device, proto, mode, poll_ms,
                  port_override, previous_frame, force_full_frames_remaining, events,
                  wire, sinceRecover, env >>

Connect_91 ==
  /\ At("connect_91")
  /\ status' = [status EXCEPT !.state = "PortOpen"]
  /\ Goto("connect_92")
  /\ UNCHANGED << call, loc, stats, serialPort, session, device, proto, mode, poll_ms,
                  port_override, previous_frame, force_full_frames_remaining, events,
                  wire, sinceRecover, env >>

Connect_92 ==
  /\ At("connect_92")
  /\ status' = [status EXCEPT !.recovery_attempts = 0]
  /\ Goto("connect_93")
  /\ UNCHANGED << call, loc, stats, serialPort, session, device, proto, mode, poll_ms,
                  port_override, previous_frame, force_full_frames_remaining, events,
                  wire, sinceRecover, env >>

Connect_93 ==
  /\ At("connect_93")
  /\ status' = [status EXCEPT !.backoff_ms = 0]
  /\ Goto("hello_93")
  /\ UNCHANGED << call, loc, stats, serialPort, session, device, proto, mode, poll_ms,
                  port_override, previous_frame, force_full_frames_remaining, events,
                  wire, sinceRecover, env >>

\* RevAProtocol.hello lines 92-93: state = HELLO, write the six HELLO bytes
Hello_93 ==
  /\ At("hello_93")
  /\ proto' = [proto EXCEPT !.state = "Hello"]
  /\ \/ /\ Written([kind |-> "hello", data |-> HelloPayload])
        /\ Goto("hello_94")
        /\ UNCHANGED << call, loc, sinceRecover, env >>
     \/ /\ Raise(IF serialPort = NoPort THEN "closed" ELSE "io")
        /\ UNCHANGED << wire, session, device, env >>
  /\ UNCHANGED << stats, status, serialPort, mode, poll_ms, port_override,
                  previous_frame, force_full_frames_remaining, events, env >>

\* hello lines 94-106 and handshake lines 128-129: read the echo, set the
\* sub-revision, raise unless the echo has length 0 or 6
Hello_94 ==
  /\ At("hello_94")
  /\ \/ /\ Raise("io")
        /\ proto' = proto
     \/ \E response \in env.echoes :
          /\ proto' = [proto EXCEPT !.sub_revision = SubRevisionName(response)]
          /\ IF HelloOk(response)
               THEN /\ Goto("orient_109")
                    /\ UNCHANGED << call, loc, sinceRecover, env >>
               ELSE Raise("handshake")
  /\ UNCHANGED << stats, status, serialPort, session, device, mode, poll_ms, port_override,
                  previous_frame, force_full_frames_remaining, events, wire, env >>

\* RevAProtocol.set_orientation (and handshake line 131): chunk_size is reset,
\* the 16-byte record is written, state becomes READY
Orient_109 ==
  /\ At("orient_109")
  /\ \/ /\ Written([kind |-> "orientation", data |-> OrientationPayload(Width, Height)])
        /\ proto' = [proto EXCEPT !.state = "Ready", !.chunk_size = Width * 8]
        /\ Goto("connect_96")
        /\ UNCHANGED << call, loc, sinceRecover, env >>
     \/ /\ proto' = [proto EXCEPT !.state = "OrientationSet", !.chunk_size = Width * 8]
        /\ Raise(IF serialPort = NoPort THEN "closed" ELSE "io")
        /\ UNCHANGED << wire, session, device, env >>
  /\ UNCHANGED << stats, status, serialPort, mode, poll_ms, port_override,
                  previous_frame, force_full_frames_remaining, events, env >>

Connect_96 ==
  /\ At("connect_96")
  /\ status' = [status EXCEPT !.connected = TRUE]
  /\ Goto("connect_97")
  /\ UNCHANGED << call, loc, stats, serialPort, session, device, proto, mode, poll_ms,
                  port_override, previous_frame, force_full_frames_remaining, events,
                  wire, sinceRecover, env >>

Connect_97 ==
  /\ At("connect_97")
  /\ status' = [status EXCEPT !.port = loc.port]
  /\ Goto("connect_98")
  /\ UNCHANGED << call, loc, stats, serialPort, session, device, proto, mode, poll_ms,
                  port_override, previous_frame, force_full_frames_remaining, events,
                  wire, sinceRecover, env >>

Connect_98 ==
  /\ At("connect_98")
  /\ status' = [status EXCEPT !.state = "Ready"]
  /\ Goto("connect_99")
  /\ UNCHANGED << call, loc, stats, serialPort, session, device, proto, mode, poll_ms,
                  port_override, previous_frame, force_full_frames_remaining, events,
                  wire, sinceRecover, env >>

Connect_99 ==
  /\ At("connect_99")
  /\ status' = [status EXCEPT !.last_error = NoError]
  /\ Goto("connect_100")
  /\ UNCHANGED << call, loc, stats, serialPort, session, device, proto, mode, poll_ms,
                  port_override, previous_frame, force_full_frames_remaining, events,
                  wire, sinceRecover, env >>

Connect_100 ==
  /\ At("connect_100")
  /\ LogEvent([event |-> "connect_ok", port |-> loc.port,
               sub_revision |-> proto.sub_revision])
  /\ ReturnWith([loc EXCEPT !.port = NoPort])
  /\ UNCHANGED << stats, status, serialPort, session, device, proto, mode, poll_ms,
                  port_override, previous_frame, force_full_frames_remaining, wire, env >>

\* ------------------------------------------------ StreamController.disconnect
DisconnectCall ==
  /\ BeginOp("disconnect", "disc_105")
  /\ call' = NewCall("disconnect")

\* DisplayTransport.close
Disc_105 ==
  /\ At("disc_105")
  /\ serialPort' = NoPort
  /\ session' = "closed"
  /\ device' = DeviceOff
  /\ wire' = <<>>
  /\ Goto("disc_106")
  /\ UNCHANGED << call, loc, stats, status, proto, mode, poll_ms, port_override,
                  previous_frame, force_full_frames_remaining, events, sinceRecover, env >>

Disc_106 ==
  /\ At("disc_106")
  /\ status' = [status EXCEPT !.connected = FALSE]
  /\ Goto("disc_107")
  /\ UNCHANGED << call, loc, stats, serialPort, session, device, proto, mode, poll_ms,
                  port_override, previous_frame, force_full_frames_remaining, events,
                  wire, sinceRecover, env >>

Disc_107 ==
  /\ At("disc_107")
  /\ status' = [status EXCEPT !.state = "Disconnected"]
  /\ Goto("disc_108")
  /\ UNCHANGED << call, loc, stats, serialPort, session, device, proto, mode, poll_ms,
                  port_override, previous_frame, force_full_frames_remaining, events,
                  wire, sinceRecover, env >>

\* Disc_108 leaving the previous frame in place
Disc_108_KeepsFrame ==
  /\ At("disc_108")
  /\ previous_frame' = previous_frame
  /\ Goto("disc_109")
  /\ UNCHANGED << call, loc, stats, status, serialPort, session, device, proto, mode, poll_ms,
                  port_override, force_full_frames_remaining, events, wire,
                  sinceRecover, env >>

Disc_108 ==
  /\ At("disc_108")
  /\ previous_frame' = NoFrame
  /\ Goto("disc_109")
  /\ UNCHANGED << call, loc, stats, status, serialPort, session, device, proto, mode, poll_ms,
                  port_override, force_full_frames_remaining, events, wire,
                  sinceRecover, env >>

Disc_109 ==
  /\ At("disc_109")
  /\ status' = [status EXCEPT !.backoff_ms = 0]
  /\ Goto("disc_110")
  /\ UNCHANGED << call, loc, stats, serialPort, session, device, proto, mode, poll_ms,
                  port_override, previous_frame, force_full_frames_remaining, events,
                  wire, sinceRecover, env >>

\* Disc_110 leaving recovery_attempts as it is
Disc_110_KeepsAttempts ==
  /\ At("disc_110")
  /\ status' = status
  /\ Goto("disc_111")
  /\ UNCHANGED << call, loc, stats, serialPort, session, device, proto, mode, poll_ms,
                  port_override, previous_frame, force_full_frames_remaining, events,
                  wire, sinceRecover, env >>

Disc_110 ==
  /\ At("disc_110")
  /\ status' = [status EXCEPT !.recovery_attempts = 0]
  /\ Goto("disc_111")
  /\ UNCHANGED << call, loc, stats, serialPort, session, device, proto, mode, poll_ms,
                  port_override, previous_frame, force_full_frames_remaining, events,
                  wire, sinceRecover, env >>

Disc_111 ==
  /\ At("disc_111")
  /\ LogEvent([event |-> "disconnect"])
  /\ Return
  /\ UNCHANGED << stats, status, serialPort, session, device, proto, mode, poll_ms,
                  port_override, previous_frame, force_full_frames_remaining, wire, env >>

\* -------------------------------------------- StreamController.set_brightness
SetBrightnessCall ==
  /\ \E percent \in env.percents :
       call' = [NewCall("set_brightness") EXCEPT !.percent = percent]
  /\ BeginOp("set_brightness", "bright_115")

Bright_115 ==
  /\ At("bright_115")
  /\ IF ~status.connected THEN Return
     ELSE /\ Goto("bright_117")
          /\ UNCHANGED << call, loc, sinceRecover, env >>
  /\ UNCHANGED << stats, status, serialPort, session, device, proto, mode, poll_ms,
                  port_override, previous_frame, force_full_frames_remaining, events,
                  wire, env >>

\* RevAProtocol.set_brightness
Bright_117 ==
  /\ At("bright_117")
  /\ \/ /\ Written([kind |-> "brightness",
                    data |-> PackCommand(CMD_SET_BRIGHTNESS,
                                         BrightnessLevel(call.percent), 0, 0, 0)])
        /\ Goto("bright_118")
        /\ UNCHANGED << call, loc, sinceRecover, env >>
     \/ /\ Raise(IF serialPort = NoPort THEN "closed" ELSE "io")
        /\ UNCHANGED << wire, session, device, env >>
  /\ UNCHANGED << stats, status, serialPort, proto, mode, poll_ms, port_override,
                  previous_frame, force_full_frames_remaining, events, env >>

Bright_118 ==
  /\ At("bright_118")
  /\ LogEvent([event |-> "brightness", percent |-> call.percent])
  /\ Return
  /\ UNCHANGED << stats, status, serialPort, session, device, proto, mode, poll_ms,
                  port_override, previous_frame, force_full_frames_remaining, wire, env >>

\* ---------------------------------------------- StreamController.apply_budget
ApplyBudgetCall ==
  /\ \E budget \in env.budgets :
       call' = [NewCall("apply_budget") EXCEPT !.budget = budget]
  /\ BeginOp("apply_budget", "budget_122")

\* lines 122-124
Budget_122 ==
  /\ At("budget_122")
  /\ poll_ms' = Max2(PollMin, Min2(PollMax, call.budget.recommended_poll_ms))
  /\ mode' = call.budget.recommended_mode
  /\ Goto(IF call.budget.overloaded THEN "budget_125" ELSE "budget_135")
  /\ UNCHANGED << call, loc, stats, status, serialPort, session, device, proto, port_override,
                  previous_frame, force_full_frames_remaining, events, wire,
                  sinceRecover, env >>

Budget_125 ==
  /\ At("budget_125")
  /\ status' = [status EXCEPT !.state = "Degraded"]
  /\ Goto("budget_126")
  /\ UNCHANGED << call, loc, stats, serialPort, session, device, proto, mode, poll_ms,
                  port_override, previous_frame, force_full_frames_remaining, events,
                  wire, sinceRecover, env >>

\* Budget_126 setting the countdown to 2 whatever it was
Budget_126_SetsTwo ==
  /\ At("budget_126")
  /\ force_full_frames_remaining' = ForceAfterOverload
  /\ proto' = [proto EXCEPT !.chunk_size = Max2(Width * 4, OverloadChunkFloor)]
  /\ Goto("budget_128")
  /\ UNCHANGED << call, loc, stats, status, serialPort, session, device, mode, poll_ms,
                  port_override, previous_frame, events, wire, sinceRecover, env >>

\* lines 126-127
Budget_126 ==
  /\ At("budget_126")
  /\ force_full_frames_remaining' = Max2(force_full_frames_remaining, ForceAfterOverload)
  /\ proto' = [proto EXCEPT !.chunk_size = Max2(Width * 4, OverloadChunkFloor)]
  /\ Goto("budget_128")
  /\ UNCHANGED << call, loc, stats, status, serialPort, session, device, mode, poll_ms,
                  port_override, previous_frame, events, wire, sinceRecover, env >>

Budget_128 ==
  /\ At("budget_128")
  /\ LogEvent([event |-> "budget_overload", cpu_percent |-> call.budget.cpu_percent,
               rss_mb |-> call.budget.rss_mb, recommended_poll_ms |-> poll_ms])
  /\ Return
  /\ UNCHANGED << stats, status, serialPort, session, device, proto, mode, poll_ms,
                  port_override, previous_frame, force_full_frames_remaining, wire, env >>

Budget_135 ==
  /\ At("budget_135")
  /\ proto' = [proto EXCEPT !.chunk_size = Width * 8]
  /\ Return
  /\ UNCHANGED << stats, status, serialPort, session, device, mode, poll_ms, port_override,
                  previous_frame, force_full_frames_remaining, events, wire, env >>

\* the host assigning controller.port_override (app.py setPortOverride)
SetPortOverride ==
  /\ Idle
  /\ \E value \in env.overrides : port_override' = value
  /\ UNCHANGED << pc, call, loc, stats, status, serialPort, session, device, proto, mode,
                  poll_ms, previous_frame, force_full_frames_remaining, events, wire,
                  sinceRecover, env >>

\* ------------------------------------------------------ StreamController.send
SendCall ==
  /\ \E frame \in env.frames :
       call' = [NewCall("send") EXCEPT !.frame = frame]
  /\ BeginOp("send", "send_139")

\* lines 139-140: auto-connect when not connected (outside the try)
Send_139 ==
  /\ At("send_139")
  /\ IF ~status.connected THEN CallFn("connect_79", "send_145") ELSE Goto("send_145")
  /\ UNCHANGED << call, loc, stats, status, serialPort, session, device, proto, mode, poll_ms,
                  port_override, previous_frame, force_full_frames_remaining, events,
                  wire, sinceRecover, env >>

\* line 145: stats = self._send_once(frame), inside the try
Send_145 ==
  /\ At("send_145")
  /\ CallFn("once_176", "send_159")
  /\ UNCHANGED << call, loc, stats, status, serialPort, session, device, proto, mode, poll_ms,
                  port_override, previous_frame, force_full_frames_remaining, events,
                  wire, sinceRecover, env >>

\* DirtyPath without the test for the single full-frame rect
DirtyPath_NoMarker(rects) == rects

\* the rects _send_once hands to send_dirty_rects, <<>> when it sends a full frame
DirtyPath(rects) ==
  IF rects # <<>> /\ ~(Len(rects) = 1 /\ rects[1].w = Width /\ rects[1].h = Height)
  THEN rects ELSE <<>>

\* how the differ's result reads to _send_once
DiffKind(rects) ==
  IF rects = <<>> THEN "empty"
  ELSE IF Len(rects) = 1 /\ rects[1].w = Width /\ rects[1].h = Height THEN "marker"
  ELSE "dirty"

\* StreamController._send_once: choose the transmission path
Once_176 ==
  /\ At("once_176")
  /\ IF force_full_frames_remaining > 0
       THEN /\ force_full_frames_remaining' = force_full_frames_remaining - 1
            /\ call' = [call EXCEPT !.diff = "forced"]
            /\ Goto("frame_145")
            /\ UNCHANGED << loc, sinceRecover >>
     ELSE IF mode = "adaptive" /\ previous_frame # NoFrame
       THEN /\ force_full_frames_remaining' = force_full_frames_remaining
            /\ IF Len(previous_frame) # Len(call.frame)
                 THEN Raise("mismatch")
                 ELSE LET diffed == ComputeDirtyRects(previous_frame, call.frame,
                                                      Width, Height, Tile)
                          rects == DirtyPath(diffed)
                      IN /\ loc' = [loc EXCEPT !.rects = rects]
                         /\ call' = [call EXCEPT !.diff = DiffKind(diffed)]
                         /\ Goto(IF rects # <<>> THEN "dirty_165" ELSE "frame_145")
                         /\ UNCHANGED sinceRecover
     ELSE /\ force_full_frames_remaining' = force_full_frames_remaining
          /\ call' = [call EXCEPT !.diff = "none"]
          /\ Goto("frame_145")
          /\ UNCHANGED << loc, sinceRecover >>
  /\ UNCHANGED << stats, status, serialPort, session, device, proto, mode, poll_ms,
                  port_override, previous_frame, events, wire, env >>

\* RevAProtocol.send_frame lines 145-150: the length check
Frame_145 ==
  /\ At("frame_145")
  /\ IF Len(call.frame) # FrameLen
       THEN /\ Raise("size")
            /\ stats' = stats
       ELSE /\ stats' = [StatsInit EXCEPT !.mode = "full"]
            /\ loc' = [loc EXCEPT !.wi = 1]
            /\ Goto("frame_152")
            /\ UNCHANGED << call, sinceRecover, env >>
  /\ UNCHANGED << status, serialPort, session, device, proto, mode, poll_ms, port_override,
                  previous_frame, force_full_frames_remaining, events, wire, env >>

\* one transport write of a transmission, or the end of the transmission
Transmit(writes, label) ==
  /\ At(label)
  /\ IF loc.wi > Len(writes)
       THEN /\ proto' = [proto EXCEPT !.state = "Streaming"]
            /\ ReturnWith([loc EXCEPT !.wi = 0, !.rects = <<>>])
            /\ UNCHANGED << stats, wire, session, device, env >>
       ELSE \/ /\ Written(writes[loc.wi])
               /\ stats' = [stats EXCEPT !.bytes_sent = @ + Len(writes[loc.wi].data),
                                         !.packets_sent = @ + 1]
               /\ loc' = [loc EXCEPT !.wi = @ + 1]
               /\ UNCHANGED << pc, proto, call, sinceRecover, env >>
            \/ /\ Raise(IF serialPort = NoPort THEN "closed" ELSE "io")
               /\ UNCHANGED << stats, wire, session, device, proto, env >>
  /\ UNCHANGED << status, serialPort, mode, poll_ms, port_override, previous_frame,
                  force_full_frames_remaining, events, env >>

\* send_frame lines 152-162: window header, pixel chunks, state = STREAMING
Frame_152 ==
  Transmit(FrameWrites(call.frame, Width, Height, proto.chunk_size), "frame_152")

\* RevAProtocol.send_dirty_rects lines 165-168
Dirty_165 ==
  /\ At("dirty_165")
  /\ IF loc.rects = <<>>
       THEN /\ stats' = [StatsInit EXCEPT !.mode = "noop"]
            /\ Return
       ELSE /\ stats' = [StatsInit EXCEPT !.mode = "dirty"]
            /\ loc' = [loc EXCEPT !.wi = 1]
            /\ Goto("dirty_172")
            /\ UNCHANGED << call, sinceRecover, env >>
  /\ UNCHANGED << status, serialPort, session, device, proto, mode, poll_ms, port_override,
                  previous_frame, force_full_frames_remaining, events, wire, env >>

\* send_dirty_rects lines 170-186: per rect a window header and its rows
Dirty_172 ==
  Transmit(DirtyWrites(loc.rects, call.frame, Width, proto.chunk_size), "dirty_172")

\* the except clause of send, lines 147-150
Send_147 ==
  /\ At("send_147")
  /\ status' = [status EXCEPT !.last_error = loc.exc]
  /\ call' = [call EXCEPT !.diff = ""]
  /\ Goto("send_148")
  /\ UNCHANGED << loc, stats, serialPort, session, device, proto, mode, poll_ms,
                  port_override, previous_frame, force_full_frames_remaining, events,
                  wire, sinceRecover, env >>

Send_148 ==
  /\ At("send_148")
  /\ status' = [status EXCEPT !.state = "Recovering"]
  /\ Goto("send_149")
  /\ UNCHANGED << call, loc, stats, serialPort, session, device, proto, mode, poll_ms,
                  port_override, previous_frame, force_full_frames_remaining, events,
                  wire, sinceRecover, env >>

Send_149 ==
  /\ At("send_149")
  /\ LogEvent([event |-> "send_error", error |-> loc.exc])
  /\ loc' = [loc EXCEPT !.exc = NoError]
  /\ Goto("send_150")
  /\ UNCHANGED << call, stats, status, serialPort, session, device, proto, mode, poll_ms,
                  port_override, previous_frame, force_full_frames_remaining, wire,
                  sinceRecover, env >>

Send_150 ==
  /\ At("send_150")
  /\ CallFn("rec_193", "send_151")
  /\ loc' = [loc EXCEPT !.attempt = 1]
  /\ call' = [call EXCEPT !.recoveries = @ + 1]
  /\ UNCHANGED << stats, status, serialPort, session, device, proto, mode, poll_ms,
                  port_override, previous_frame, force_full_frames_remaining, events,
                  wire, sinceRecover, env >>

\* line 151: the retry, outside the try
Send_151 ==
  /\ At("send_151")
  /\ CallFn("frame_145", "send_152")
  /\ UNCHANGED << call, loc, stats, status, serialPort, session, device, proto, mode, poll_ms,
                  port_override, previous_frame, force_full_frames_remaining, events,
                  wire, sinceRecover, env >>

Send_152 ==
  /\ At("send_152")
  /\ stats' = [stats EXCEPT !.retries = @ + 1]
  /\ Goto("send_159")
  /\ UNCHANGED << call, loc, status, serialPort, session, device, proto, mode, poll_ms,
                  port_override, previous_frame, force_full_frames_remaining, events,
                  wire, sinceRecover, env >>

\* Send_159 ignoring the forced-full countdown
Send_159_AlwaysStreaming ==
  /\ At("send_159")
  /\ status' = [status EXCEPT !.state = "Streaming"]
  /\ call' = [call EXCEPT !.diff = ""]
  /\ Goto("send_162")
  /\ UNCHANGED << loc, stats, serialPort, session, device, proto, mode, poll_ms,
                  port_override, previous_frame, force_full_frames_remaining, events,
                  wire, sinceRecover, env >>

Send_159 ==
  /\ At("send_159")
  /\ status' = [status EXCEPT !.state = IF force_full_frames_remaining = 0
                                         THEN "Streaming" ELSE "Degraded"]
  /\ call' = [call EXCEPT !.diff = ""]
  /\ Goto("send_162")
  /\ UNCHANGED << loc, stats, serialPort, session, device, proto, mode, poll_ms,
                  port_override, previous_frame, force_full_frames_remaining, events,
                  wire, sinceRecover, env >>

Send_162 ==
  /\ At("send_162")
  /\ status' = [status EXCEPT !.backoff_ms = 0]
  /\ Goto("send_163")
  /\ UNCHANGED << call, loc, stats, serialPort, session, device, proto, mode, poll_ms,
                  port_override, previous_frame, force_full_frames_remaining, events,
                  wire, sinceRecover, env >>

Send_163 ==
  /\ At("send_163")
  /\ status' = [status EXCEPT !.recovery_attempts = 0]
  /\ Goto("send_164")
  /\ UNCHANGED << call, loc, stats, serialPort, session, device, proto, mode, poll_ms,
                  port_override, previous_frame, force_full_frames_remaining, events,
                  wire, sinceRecover, env >>

Send_164 ==
  /\ At("send_164")
  /\ previous_frame' = call.frame
  /\ Goto("send_165")
  /\ UNCHANGED << call, loc, stats, status, serialPort, session, device, proto, mode, poll_ms,
                  port_override, force_full_frames_remaining, events, wire,
                  sinceRecover, env >>

Send_165 ==
  /\ At("send_165")
  /\ LogEvent([event |-> "send_ok", mode |-> stats.mode, bytes_sent |-> stats.bytes_sent,
               packets_sent |-> stats.packets_sent])
  /\ Return
  /\ UNCHANGED << stats, status, serialPort, session, device, proto, mode, poll_ms,
                  port_override, previous_frame, force_full_frames_remaining, wire, env >>

\* BackoffDelayMs with the exponent one too high: base * 2 ** attempt
BackoffDelayMs_Doubled(attempt) == Min2(BackoffCapMs, BackoffBaseMs * Pow2(attempt))

\* -------------------------------------- StreamController._recover_with_backoff
\* line 189
BackoffDelayMs(attempt) == Min2(BackoffCapMs, BackoffBaseMs * Pow2(attempt - 1))

Rec_193 ==
  /\ At("rec_193")
  /\ status' = [status EXCEPT !.state = "BackoffWait"]
  /\ Goto("rec_194")
  /\ UNCHANGED << call, loc, stats, serialPort, session, device, proto, mode, poll_ms,
                  port_override, previous_frame, force_full_frames_remaining, events,
                  wire, sinceRecover, env >>

\* lines 189-194: wait_for = delay + jitter
Rec_194 ==
  /\ At("rec_194")
  /\ \E jitter \in env.jitter :
       status' = [status EXCEPT !.backoff_ms = BackoffDelayMs(loc.attempt) + jitter]
  /\ Goto("rec_195")
  /\ UNCHANGED << call, loc, stats, serialPort, session, device, proto, mode, poll_ms,
                  port_override, previous_frame, force_full_frames_remaining, events,
                  wire, sinceRecover, env >>

Rec_195 ==
  /\ At("rec_195")
  /\ status' = [status EXCEPT !.recovery_attempts = loc.attempt]
  /\ Goto("rec_196")
  /\ UNCHANGED << call, loc, stats, serialPort, session, device, proto, mode, poll_ms,
                  port_override, previous_frame, force_full_frames_remaining, events,
                  wire, sinceRecover, env >>

\* lines 196-197: log, then sleep
Rec_196 ==
  /\ At("rec_196")
  /\ LogEvent([event |-> "recover_wait", attempt |-> loc.attempt,
               wait_ms |-> status.backoff_ms])
  /\ call' = [call EXCEPT !.waits = Append(@, loc.attempt)]
  /\ Goto("rec_200")
  /\ UNCHANGED << loc, stats, status, serialPort, session, device, proto, mode, poll_ms,
                  port_override, previous_frame, force_full_frames_remaining, wire,
                  sinceRecover, env >>

Rec_200 ==
  /\ At("rec_200")
  /\ status' = [status EXCEPT !.state = "Recovering"]
  /\ Goto("rec_201")
  /\ UNCHANGED << call, loc, stats, serialPort, session, device, proto, mode, poll_ms,
                  port_override, previous_frame, force_full_frames_remaining, events,
                  wire, sinceRecover, env >>

Rec_201 ==
  /\ At("rec_201")
  /\ CallFn("disc_105", "rec_202")
  /\ UNCHANGED << call, loc, stats, status, serialPort, session, device, proto, mode, poll_ms,
                  port_override, previous_frame, force_full_frames_remaining, events,
                  wire, sinceRecover, env >>

Rec_202 ==
  /\ At("rec_202")
  /\ CallFn("connect_79", "rec_203")
  /\ UNCHANGED << call, loc, stats, status, serialPort, session, device, proto, mode, poll_ms,
                  port_override, previous_frame, force_full_frames_remaining, events,
                  wire, sinceRecover, env >>

Rec_203 ==
  /\ At("rec_203")
  /\ status' = [status EXCEPT !.state = "Degraded"]
  /\ Goto("rec_204")
  /\ UNCHANGED << call, loc, stats, serialPort, session, device, proto, mode, poll_ms,
                  port_override, previous_frame, force_full_frames_remaining, events,
                  wire, sinceRecover, env >>

\* Rec_204 forcing one full frame fewer
Rec_204_Two ==
  /\ At("rec_204")
  /\ force_full_frames_remaining' = ForceAfterRecover - 1
  /\ Goto("rec_205")
  /\ UNCHANGED << call, loc, stats, status, serialPort, session, device, proto, mode, poll_ms,
                  port_override, previous_frame, events, wire, sinceRecover, env >>

Rec_204 ==
  /\ At("rec_204")
  /\ force_full_frames_remaining' = ForceAfterRecover
  /\ Goto("rec_205")
  /\ UNCHANGED << call, loc, stats, status, serialPort, session, device, proto, mode, poll_ms,
                  port_override, previous_frame, events, wire, sinceRecover, env >>

Rec_205 ==
  /\ At("rec_205")
  /\ LogEvent([event |-> "recover_ok", attempt |-> loc.attempt])
  /\ Return
  /\ UNCHANGED << stats, status, serialPort, session, device, proto, mode, poll_ms,
                  port_override, previous_frame, force_full_frames_remaining, wire, env >>

\* the except clause of the loop, lines 208-209
Rec_209 ==
  /\ At("rec_209")
  /\ status' = [status EXCEPT !.last_error = loc.exc]
  /\ Goto("rec_210")
  /\ UNCHANGED << call, loc, stats, serialPort, session, device, proto, mode, poll_ms,
                  port_override, previous_frame, force_full_frames_remaining, events,
                  wire, sinceRecover, env >>

\* Rec_210 with the loop ending one attempt early, as range(1, max) would
Rec_210_OneFewer ==
  /\ At("rec_210")
  /\ LogEvent([event |-> "recover_error", attempt |-> loc.attempt, error |-> loc.exc])
  /\ loc' = [loc EXCEPT !.attempt = @ + 1, !.exc = NoError]
  /\ Goto(IF loc.attempt + 1 <= MaxRecoverAttempts - 1 THEN "rec_193" ELSE "rec_212")
  /\ UNCHANGED << call, stats, status, serialPort, session, device, proto, mode, poll_ms,
                  port_override, previous_frame, force_full_frames_remaining, wire,
                  sinceRecover, env >>

\* line 210, then the next iteration of the for loop or its end
Rec_210 ==
  /\ At("rec_210")
  /\ LogEvent([event |-> "recover_error", attempt |-> loc.attempt, error |-> loc.exc])
  /\ loc' = [loc EXCEPT !.attempt = @ + 1, !.exc = NoError]
  /\ Goto(IF loc.attempt + 1 <= MaxRecoverAttempts THEN "rec_193" ELSE "rec_212")
  /\ UNCHANGED << call, stats, status, serialPort, session, device, proto, mode, poll_ms,
                  port_override, previous_frame, force_full_frames_remaining, wire,
                  sinceRecover, env >>

Rec_212 ==
  /\ At("rec_212")
  /\ status' = [status EXCEPT !.connected = FALSE]
  /\ Goto("rec_213")
  /\ UNCHANGED << call, loc, stats, serialPort, session, device, proto, mode, poll_ms,
                  port_override, previous_frame, force_full_frames_remaining, events,
                  wire, sinceRecover, env >>

\* Rec_213 leaving the state Disconnected
Rec_213_Disconnected ==
  /\ At("rec_213")
  /\ status' = [status EXCEPT !.state = "Disconnected"]
  /\ Raise("recover_failed")
  /\ UNCHANGED << stats, serialPort, session, device, proto, mode, poll_ms, port_override,
                  previous_frame, force_full_frames_remaining, events, wire, env >>

\* lines 213-214
Rec_213 ==
  /\ At("rec_213")
  /\ status' = [status EXCEPT !.state = "Recovering"]
  /\ Raise("recover_failed")
  /\ UNCHANGED << stats, serialPort, session, device, proto, mode, poll_ms, port_override,
                  previous_frame, force_full_frames_remaining, events, wire, env >>

\* ------------------------------------------------------------ specification
ConnectStep ==
  \/ Connect_79 \/ Connect_80 \/ Connect_82 \/ Connect_90 \/ Connect_91 \/ Connect_92
  \/ Connect_93 \/ Hello_93 \/ Hello_94 \/ Orient_109 \/ Connect_96 \/ Connect_97
  \/ Connect_98 \/ Connect_99 \/ Connect_100

DisconnectStep ==
  \/ Disc_105 \/ Disc_106 \/ Disc_107 \/ Disc_108 \/ Disc_109 \/ Disc_110 \/ Disc_111

SendStep ==
  \/ Send_139 \/ Send_145 \/ Once_176 \/ Frame_145 \/ Frame_152 \/ Dirty_165 \/ Dirty_172
  \/ Send_147 \/ Send_148 \/ Send_149 \/ Send_150 \/ Send_151 \/ Send_152 \/ Send_159
  \/ Send_162 \/ Send_163 \/ Send_164 \/ Send_165

RecoverStep ==
  \/ Rec_193 \/ Rec_194 \/ Rec_195 \/ Rec_196 \/ Rec_200 \/ Rec_201 \/ Rec_202
  \/ Rec_203 \/ Rec_204 \/ Rec_205 \/ Rec_209 \/ Rec_210 \/ Rec_212 \/ Rec_213

OtherStep ==
  \/ Bright_115 \/ Bright_117 \/ Bright_118
  \/ Budget_122 \/ Budget_125 \/ Budget_126 \/ Budget_128 \/ Budget_135

\* a statement of the operation in progress
Step == ConnectStep \/ DisconnectStep \/ SendStep \/ RecoverStep \/ OtherStep

Next ==
  \/ ConnectCall \/ DisconnectCall \/ SendCall \/ SetBrightnessCall \/ ApplyBudgetCall
  \/ SetPortOverride
  \/ Step

Spec == Init /\ [][Next]_vars

SpecRecovery == InitRecovery /\ [][Next]_vars

\* the surroundings of the termination check: no jitter, and the log keeps the
\* last event only
TerminationEnv == [RecoveryEnv EXCEPT !.jitter = {0}, !.max_events = MaxEvents - 1]

InitTermination ==
  /\ Constructed
  /\ sinceRecover = [n |-> -2, raised |-> FALSE]
  /\ env = TerminationEnv

\* the thread that holds the lock keeps running: every transport call and every
\* sleep of the operation in progress returns
FairSpec == InitTermination /\ [][Next]_vars /\ WF_vars(Step)

\* the surroundings of the port-resolution check: one enumeration result per run
\* (none, a marker device listed before two VID/PID devices, a marker device
\* only), a display that stays silent on HELLO, and a host that sets and clears
\* the port override
ConnectDeviceLists ==
  { <<>>, <<DevMarker("p3"), DevVid("p1"), DevVid("p4")>>, <<DevMarker("p3")>> }

ConnectEnv(devices) ==
  [TerminationEnv EXCEPT !.devices = {devices}, !.overrides = Overrides,
                         !.echoes = {<<>>}]

InitConnect ==
  /\ Constructed
  /\ sinceRecover = [n |-> -2, raised |-> FALSE]
  /\ env \in {ConnectEnv(devices) : devices \in ConnectDeviceLists}

SpecConnect == InitConnect /\ [][Next]_vars

\* ------------------------------------------------------ the supervisor lock
\* Every public operation runs inside "with self._lock": the lock is free exactly
\* when no operation is in flight (Idle), BeginOp takes it and Finish gives it
\* back on return and on raise alike. The host thread t1 makes its calls when
\* the lock is free; a second thread t2 may also call while the lock is held,
\* and then waits for it (env.waiting) without touching the controller.
OtherThreads == {"t2"}
WaitingOps == {"disconnect", "send"}

\* a thread that does not hold the lock calls an operation during another one
BlockedCall ==
  /\ ~Idle
  /\ \E t \in OtherThreads \ {call.thread}, op \in WaitingOps :
       /\ \A w \in env.waiting : w.thread # t
       /\ env' = [env EXCEPT !.waiting = @ \union {[thread |-> t, op |-> op]}]
  /\ UNCHANGED << pc, call, loc, stats, status, serialPort, session, device, proto, mode,
                  poll_ms, port_override, previous_frame,
                  force_full_frames_remaining, events, wire, sinceRecover >>

\* a waiting call that starts whether or not the lock is free
AcquireBlocked_NoLock ==
  /\ \E w \in env.waiting :
       /\ env' = [env EXCEPT !.waiting = @ \ {w}]
       /\ \/ /\ w.op = "disconnect"
             /\ call' = [NewCall("disconnect") EXCEPT !.thread = w.thread]
             /\ pc' = <<"disc_105">> \o pc
          \/ /\ w.op = "send"
             /\ \E frame \in env.frames :
                  call' = [NewCall("send") EXCEPT !.frame = frame, !.thread = w.thread]
             /\ pc' = <<"send_139">> \o pc
  /\ loc' = LocInit
  /\ stats' = StatsInit
  /\ wire' = <<>>
  /\ UNCHANGED << status, serialPort, session, device, proto, mode, poll_ms, port_override,
                  previous_frame, force_full_frames_remaining, events, sinceRecover >>

\* the lock is free: a waiting thread takes it and its operation begins
AcquireBlocked ==
  /\ Idle
  /\ \E w \in env.waiting :
       /\ env' = [env EXCEPT !.waiting = @ \ {w}]
       /\ \/ /\ w.op = "disconnect"
             /\ call' = [NewCall("disconnect") EXCEPT !.thread = w.thread]
             /\ pc' = <<"disc_105">>
          \/ /\ w.op = "send"
             /\ \E frame \in env.frames :
                  call' = [NewCall("send") EXCEPT !.frame = frame, !.thread = w.thread]
             /\ pc' = <<"send_139">>
  /\ loc' = LocInit
  /\ stats' = StatsInit
  /\ wire' = <<>>
  /\ UNCHANGED << status, serialPort, session, device, proto, mode, poll_ms, port_override,
                  previous_frame, force_full_frames_remaining, events, sinceRecover >>

NextThreads == Next \/ BlockedCall \/ AcquireBlocked

\* the surroundings of the two-thread check: no jitter, the log keeps two events
ThreadsEnv == [RecoveryEnv EXCEPT !.jitter = {0}]

InitThreads ==
  /\ Constructed
  /\ sinceRecover = [n |-> -2, raised |-> FALSE]
  /\ env = ThreadsEnv

SpecThreads == InitThreads /\ [][NextThreads]_vars

\* ------------------------------------------------ PerformanceController.sample
\* int(poll_ms * 1.25): the product is exact, int() truncates toward zero
ScaledPoll(poll) ==
  IF poll >= 0 THEN (poll * 5) \div 4 ELSE -(((-poll) * 5) \div 4)

\* sample testing the frame rate before the resource readings
Sample_FpsFirst(fps, poll, current_mode, cpu, rss_mb) ==
  LET overloaded == cpu > CpuPercentMax \/ rss_mb > RssMbMax
      rec_poll == IF fps < FpsMin THEN Max2(SamplePollMin, poll - FpsPollStep)
                  ELSE IF fps > FpsMax THEN Min2(SamplePollMax, poll + FpsPollStep)
                  ELSE IF overloaded
                    THEN Min2(SamplePollMax, ScaledPoll(poll) + OverloadPollStep)
                  ELSE poll
  IN [recommended_poll_ms |-> rec_poll,
      recommended_mode |-> IF overloaded THEN "adaptive" ELSE current_mode,
      overloaded |-> overloaded, cpu_percent |-> cpu, rss_mb |-> rss_mb,
      warning |-> IF fps < FpsMin THEN "below_fps_target"
                  ELSE IF fps > FpsMax THEN "above_fps_target"
                  ELSE IF overloaded THEN "resource_overload"
                  ELSE ""]

\* the BudgetStatus sample returns, for readings cpu (percent) and rss_mb; the
\* warning None is ""
Sample(fps, poll, current_mode, cpu, rss_mb) ==
  LET overloaded == cpu > CpuPercentMax \/ rss_mb > RssMbMax
      rec_poll == IF overloaded
                    THEN Min2(SamplePollMax, ScaledPoll(poll) + OverloadPollStep)
                  ELSE IF fps < FpsMin THEN Max2(SamplePollMin, poll - FpsPollStep)
                  ELSE IF fps > FpsMax THEN Min2(SamplePollMax, poll + FpsPollStep)
                  ELSE poll
  IN [recommended_poll_ms |-> rec_poll,
      recommended_mode |-> IF overloaded THEN "adaptive" ELSE current_mode,
      overloaded |-> overloaded, cpu_percent |-> cpu, rss_mb |-> rss_mb,
      warning |-> IF overloaded THEN "resource_overload"
                  ELSE IF fps < FpsMin THEN "below_fps_target"
                  ELSE IF fps > FpsMax THEN "above_fps_target"
                  ELSE ""]

SampleFps == {4, 5, 10, 11}
SamplePolls == {100, 500, 1980, 2500}
SampleModes == {"adaptive", "full"}
SampleCpu == {8, 9}
SampleRss == {300, 301}

\* the host samples the budget (app.py line 313)
SampleCall ==
  /\ Idle
  /\ \E fps \in SampleFps, poll \in SamplePolls, current_mode \in SampleModes,
        cpu \in SampleCpu, rss_mb \in SampleRss :
       call' = [NewCall("sample") EXCEPT !.status = "returned",
                                         !.budget = Sample(fps, poll, current_mode, cpu, rss_mb)]
                 @@ [args |-> [fps |-> fps, poll_ms |-> poll, current_mode |-> current_mode]]
  /\ UNCHANGED << pc, loc, stats, status, serialPort, session, device, proto, mode, poll_ms,
                  port_override, previous_frame, force_full_frames_remaining, events,
                  wire, sinceRecover, env >>

\* and hands it to the controller (app.py line 314)
ApplySampled ==
  /\ call.op = "sample"
  /\ call' = [NewCall("apply_budget") EXCEPT !.budget = call.budget]
  /\ BeginOp("apply_budget", "budget_122")

NextSample ==
  \/ SampleCall \/ ApplySampled
  \/ Budget_122 \/ Budget_125 \/ Budget_126 \/ Budget_128 \/ Budget_135

\* the log keeps the last event only
SpecSample == InitTermination /\ [][NextSample]_vars

\* the surroundings of the reconnect check: the log keeps the last five events,
\* the display stays silent on HELLO
InitReconnect ==
  /\ Constructed
  /\ sinceRecover = [n |-> -2, raised |-> FALSE]
  /\ env = [TerminationEnv EXCEPT !.max_events = MaxEvents + 3, !.echoes = {<<>>}]

\* StreamController.recent_events: self._events[-limit:], where -0 is 0
RecentEvents(limit) ==
  IF limit > 0 THEN LastN(events, limit)
  ELSE Slice(events, -limit, Len(events))

\* the host reads the log between two operations
RecentEventsCall ==
  /\ Idle
  /\ \E limit \in {0, 2, MaxEvents + 3, MaxEvents + 4} :
       call' = [NewCall("recent_events") EXCEPT !.status = "returned"]
                 @@ [limit |-> limit, result |-> RecentEvents(limit)]
  /\ UNCHANGED << pc, loc, stats, status, serialPort, session, device, proto, mode, poll_ms,
                  port_override, previous_frame, force_full_frames_remaining, events,
                  wire, sinceRecover, env >>

\* connect, disconnect and send, and the log read in between
NextReconnect ==
  \/ ConnectCall \/ DisconnectCall \/ SendCall \/ RecentEventsCall
  \/ ConnectStep \/ DisconnectStep \/ SendStep \/ RecoverStep

SpecReconnect == InitReconnect /\ [][NextReconnect]_vars

\* ------------------------------------------------------- the event log at length
\* the surroundings of the event-order check: the log is long enough to keep every
\* event of a first send and of a send that recovers at the fifth attempt
InitEvents ==
  /\ Constructed
  /\ sinceRecover = [n |-> -2, raised |-> FALSE]
  /\ env = [TerminationEnv EXCEPT !.max_events = 6 * MaxRecoverAttempts,
                                  !.echoes = {<<>>}]

\* the host sends while the log holds no more than the three events of a first
\* successful send (connect_start, connect_ok, send_ok)
EventsSendCall ==
  /\ Len(events) <= 3
  /\ SendCall

NextEvents ==
  \/ EventsSendCall
  \/ ConnectStep \/ DisconnectStep \/ SendStep \/ RecoverStep

SpecEvents == InitEvents /\ [][NextEvents]_vars

\* ------------------------------------------- library functions called directly
\* _pack_command as called: negative coordinates raise before anything is packed
PackCommandCall(cmd, x, y, ex, ey) ==
  IF Min2(Min2(x, y), Min2(ex, ey)) < 0
    THEN [status |-> "raised", result |-> <<>>]
    ELSE [status |-> "returned", result |-> PackCommand(cmd, x, y, ex, ey)]

PackCall ==
  /\ call.op = "pack" /\ call.status = "called"
  /\ call' = [op |-> "pack", args |-> call.args]
               @@ PackCommandCall(call.args[1], call.args[2], call.args[3],
                                  call.args[4], call.args[5])
  /\ UNCHANGED << pc, loc, stats, status, serialPort, session, device, proto, mode, poll_ms,
                  port_override, previous_frame, force_full_frames_remaining, events,
                  wire, sinceRecover, env >>

\* compute_dirty_rects called directly
DiffCall ==
  /\ call.op = "diff" /\ call.status = "called"
  /\ call' = IF Len(call.args.previous_frame) # Len(call.args.current_frame)
               THEN [call EXCEPT !.status = "raised"]
               ELSE [call EXCEPT !.status = "returned",
                                 !.result = ComputeDirtyRects(call.args.previous_frame,
                                                              call.args.current_frame,
                                                              call.args.width,
                                                              call.args.height,
                                                              call.args.tile)]
  /\ UNCHANGED << pc, loc, stats, status, serialPort, session, device, proto, mode, poll_ms,
                  port_override, previous_frame, force_full_frames_remaining, events,
                  wire, sinceRecover, env >>

\* RevAProtocol.set_brightness: the header it hands to transport.write
BrightnessCall ==
  /\ call.op = "brightness" /\ call.status = "called"
  /\ call' = [call EXCEPT !.status = "returned",
                          !.result = PackCommand(CMD_SET_BRIGHTNESS,
                                                 BrightnessLevel(call.args), 0, 0, 0)]
  /\ UNCHANGED << pc, loc, stats, status, serialPort, session, device, proto, mode, poll_ms,
                  port_override, previous_frame, force_full_frames_remaining, events,
                  wire, sinceRecover, env >>

\* the report of a run that takes only 16-byte records for SET_ORIENTATION
ReplayRun_OrientationLen16(replay_events, strict) ==
  LET kind(payload) ==
        IF payload = <<>> THEN "empty"
        ELSE IF payload = HelloPayload THEN "hello"
        ELSE IF Len(payload) = 16 /\ payload[6] = CMD_SET_ORIENTATION THEN "orientation"
        ELSE IF Len(payload) >= 6 /\ payload[6] = CMD_DISPLAY_BITMAP THEN "window"
        ELSE "pixels"
      count(k) == Cardinality({i \in 1..Len(replay_events) : kind(replay_events[i].payload) = k})
      from(d) == Cardinality({i \in 1..Len(replay_events) : replay_events[i].direction = d})
      RECURSIVE bytes(_)
      bytes(i) == IF i = 0 THEN 0 ELSE bytes(i - 1) + Len(replay_events[i].payload)
  IN [total_events |-> Len(replay_events),
      host_to_device_events |-> from("host_to_device"),
      device_to_host_events |-> from("device_to_host"),
      hello_count |-> count("hello"),
      orientation_count |-> count("orientation"),
      window_count |-> count("window"),
      payload_packets |-> count("pixels"),
      raw_bytes_total |-> bytes(Len(replay_events)),
      errors |-> IF strict
                   THEN (IF count("hello") < 1 THEN <<"missing_hello">> ELSE <<>>)
                        \o (IF count("orientation") < 1 THEN <<"missing_orientation">> ELSE <<>>)
                        \o (IF count("window") < 1 THEN <<"missing_window">> ELSE <<>>)
                   ELSE <<>>]

\* ReplayRunner.run on the parsed events of a transcript: the ReplayReport
ReplayRun(replay_events, strict) ==
  LET kind(payload) ==
        IF payload = <<>> THEN "empty"
        ELSE IF payload = HelloPayload THEN "hello"
        ELSE IF Len(payload) >= 6 /\ payload[6] = CMD_SET_ORIENTATION THEN "orientation"
        ELSE IF Len(payload) >= 6 /\ payload[6] = CMD_DISPLAY_BITMAP THEN "window"
        ELSE "pixels"
      count(k) == Cardinality({i \in 1..Len(replay_events) : kind(replay_events[i].payload) = k})
      from(d) == Cardinality({i \in 1..Len(replay_events) : replay_events[i].direction = d})
      RECURSIVE bytes(_)
      bytes(i) == IF i = 0 THEN 0 ELSE bytes(i - 1) + Len(replay_events[i].payload)
  IN [total_events |-> Len(replay_events),
      host_to_device_events |-> from("host_to_device"),
      device_to_host_events |-> from("device_to_host"),
      hello_count |-> count("hello"),
      orientation_count |-> count("orientation"),
      window_count |-> count("window"),
      payload_packets |-> count("pixels"),
      raw_bytes_total |-> bytes(Len(replay_events)),
      errors |-> IF strict
                   THEN (IF count("hello") < 1 THEN <<"missing_hello">> ELSE <<>>)
                        \o (IF count("orientation") < 1 THEN <<"missing_orientation">> ELSE <<>>)
                        \o (IF count("window") < 1 THEN <<"missing_window">> ELSE <<>>)
                   ELSE <<>>]

ReplayCall ==
  /\ call.op = "replay" /\ call.status = "called"
  /\ call' = [call EXCEPT !.status = "returned",
                          !.result = ReplayRun(call.args.events, call.args.strict)]
  /\ UNCHANGED << pc, loc, stats, status, serialPort, session, device, proto, mode, poll_ms,
                  port_override, previous_frame, force_full_frames_remaining, events,
                  wire, sinceRecover, env >>

\* a library function is about to be called with arguments from the input sets
InitCodec ==
  /\ \/ \E cmd \in {CMD_DISPLAY_BITMAP, CMD_SET_BRIGHTNESS} :
          \E x, y, ex, ey \in {-1, 0, 1, 3, 4, 15, 16, 63, 64, 255, 256, 479, 799, 1023} :
            call = [op |-> "pack", status |-> "called", result |-> <<>>,
                    args |-> <<cmd, x, y, ex, ey>>]
     \/ \E n \in 0..3, strict \in BOOLEAN :
          \E transcript \in
               [1..n -> { [direction |-> "host_to_device", payload |-> HelloPayload],
                          [direction |-> "host_to_device",
                           payload |-> OrientationPayload(800, 480)],
                          [direction |-> "host_to_device",
                           payload |-> PackCommand(CMD_DISPLAY_BITMAP, 0, 0, 799, 479)],
                          [direction |-> "host_to_device", payload |-> <<7, 7, 7, 7, 7, 7, 7, 7>>],
                          [direction |-> "host_to_device", payload |-> <<7, 7, 7, 7, 7, 121>>],
                          [direction |-> "host_to_device", payload |-> <<7, 7, 7, 7, 7, 197, 7>>],
                          [direction |-> "host_to_device", payload |-> <<69, 69, 69, 69, 69>>],
                          [direction |-> "device_to_host", payload |-> <<2, 2, 2, 2, 2, 2>>],
                          [direction |-> "unknown", payload |-> <<>>] }] :
            call = [op |-> "replay", status |-> "called", result |-> <<>>,
                    args |-> [events |-> transcript, strict |-> strict]]
     \/ \E percent \in (0..100) \union {-5, 120} :
          call = [op |-> "brightness", status |-> "called", result |-> <<>>,
                  args |-> percent]
     \/ \E g \in {<<2, 2>>, <<3, 2>>, <<4, 3>>}, a \in {0, 1}, t \in 1..3, b \in 1..2 :
          \E differs \in [0..(g[1] * g[2] - 1) -> BOOLEAN] :
            call = [op |-> "diff", status |-> "called", result |-> <<>>,
                    args |-> [previous_frame |-> [i \in 1..(g[1] * g[2] * 2) |-> a],
                              current_frame |->
                                [i \in 1..(g[1] * g[2] * 2) |->
                                   IF differs[(i - 1) \div 2] /\ ((i - 1) % 2) + 1 = b
                                     THEN 1 - a ELSE a],
                              width |-> g[1], height |-> g[2], tile |-> t]]
  /\ pc = <<>> /\ loc = LocInit /\ stats = StatsInit /\ status = StatusInit
  /\ serialPort = NoPort /\ session = "closed" /\ device = DeviceOff
  /\ proto = [state |-> "Disconnected", chunk_size |-> Width * 8, sub_revision |-> "unknown"]
  /\ mode = "adaptive" /\ poll_ms = 500 /\ port_override = NoPort
  /\ previous_frame = NoFrame /\ force_full_frames_remaining = 0
  /\ events = <<>> /\ wire = <<>>
  /\ sinceRecover = [n |-> -2, raised |-> FALSE]
  /\ env = StreamEnv

NextCodec == PackCall \/ DiffCall \/ BrightnessCall \/ ReplayCall

SpecCodec == InitCodec /\ [][NextCodec]_vars

\* --------------------------------------------- RevAProtocol.send_frame alone
\* RevAProtocol(transport, Width, Height, chunk_size) over an open transport, as
\* the protocol tests construct it
InitSendFrame ==
  /\ pc = <<>> /\ call = CallInit /\ loc = LocInit /\ stats = StatsInit
  /\ status = StatusInit
  /\ serialPort = "p1" /\ session = "open" /\ device = DeviceOff
  /\ proto \in { [state |-> "Disconnected", chunk_size |-> c, sub_revision |-> "unknown"] :
                   c \in 1..(FrameLen + 1) }
  /\ mode = "adaptive" /\ poll_ms = 500 /\ port_override = NoPort
  /\ previous_frame = NoFrame /\ force_full_frames_remaining = 0
  /\ events = <<>> /\ wire = <<>>
  /\ sinceRecover = [n |-> -2, raised |-> FALSE]
  /\ env = StreamEnv

SendFrameCall ==
  /\ call.op = "none"
  /\ \E frame \in env.frames :
       call' = [NewCall("send_frame") EXCEPT !.frame = frame]
  /\ BeginOp("send_frame", "frame_145")

NextSendFrame == SendFrameCall \/ Frame_145 \/ Frame_152

SpecSendFrame == InitSendFrame /\ [][NextSendFrame]_vars

\* ---------------------------------------- RevAProtocol.send_dirty_rects alone
\* a protocol over an open transport with any chunk size, a frame whose bytes all
\* differ, and rect lists inside the frame
InitSendDirty ==
  /\ pc = <<>> /\ call = CallInit /\ loc = LocInit /\ stats = StatsInit
  /\ status = StatusInit
  /\ serialPort = "p1" /\ session = "open" /\ device = DeviceOff
  /\ proto \in { [state |-> "Disconnected", chunk_size |-> c, sub_revision |-> "unknown"] :
                   c \in 1..(FrameLen + 1) }
  /\ mode = "adaptive" /\ poll_ms = 500 /\ port_override = NoPort
  /\ previous_frame = NoFrame /\ force_full_frames_remaining = 0
  /\ events = <<>> /\ wire = <<>>
  /\ sinceRecover = [n |-> -2, raised |-> FALSE]
  /\ env = [StreamEnv EXCEPT !.frames = {[i \in 1..FrameLen |-> i], FrameB}]

SendDirtyCall ==
  /\ Idle /\ call.op = "none"
  /\ \E frame \in env.frames :
       \E rects \in { <<>>,
                      << [x |-> 0, y |-> 0, w |-> Width, h |-> Height] >>,
                      << [x |-> 1, y |-> 1, w |-> 2, h |-> 2] >>,
                      << [x |-> Width - 1, y |-> Height - 1, w |-> 1, h |-> 1] >>,
                      << [x |-> 0, y |-> 2, w |-> Width, h |-> 1],
                         [x |-> 0, y |-> 0, w |-> 2, h |-> 3] >> } :
         /\ call' = [NewCall("send_dirty_rects") EXCEPT !.frame = frame]
                      @@ [rects |-> rects]
         /\ loc' = [LocInit EXCEPT !.rects = rects]
  /\ pc' = <<"dirty_165">>
  /\ stats' = StatsInit
  /\ wire' = <<>>
  /\ UNCHANGED << status, serialPort, session, device, proto, mode, poll_ms, port_override,
                  previous_frame, force_full_frames_remaining, events, sinceRecover, env >>

NextSendDirty ==
  \/ SendDirtyCall \/ Dirty_165 \/ Dirty_172
  \/ SendFrameCall \/ Frame_145 \/ Frame_152

SpecSendDirty == InitSendDirty /\ [][NextSendDirty]_vars

\* ------------------------------------------------ the display's framebuffer
\* the controller over a display whose window and framebuffer are kept; frames
\* of the right length and one that is too short
DeviceEnv ==
  [TerminationEnv EXCEPT !.frames = {FrameA, FrameB, FrameBad}] @@ [framebuffer |-> TRUE]

InitDevice ==
  /\ Constructed
  /\ sinceRecover = [n |-> -2, raised |-> FALSE]
  /\ env = DeviceEnv

SpecDevice == InitDevice /\ [][Next]_vars

\* ------------------------------------------------------------ the host loop
\* The timer callback _tick: send the rendered frame; when send has returned,
\* sample the budget and apply it; when send has raised, the exception is caught
\* and the next tick sends again. env.host keeps what the loop has seen: whether
\* a budget was applied (any) and all of them were overloaded (all_over), the
\* sends returned since budgets stopped being overloaded (calm, -1 when the last
\* budget was overloaded or none was applied), whether Streaming was seen at the
\* return of one of them (reached), and whether a send raised or entered recovery
\* since the last overloaded budget or the first calm one (failed)
HostInit == [any |-> FALSE, all_over |-> FALSE, calm |-> -1, reached |-> FALSE,
             failed |-> FALSE]

InitHost ==
  /\ Constructed
  /\ sinceRecover = [n |-> -2, raised |-> FALSE]
  /\ env = TerminationEnv @@ [host |-> HostInit]

\* app.py line 304: the tick sends, at the start, after apply_budget, or after a
\* send that raised
HostSend ==
  /\ Idle
  /\ call.op \in {"none", "apply_budget"} \/ (call.op = "send" /\ call.status = "raised")
  /\ \E frame \in env.frames :
       call' = [NewCall("send") EXCEPT !.frame = frame]
  /\ env' = [env EXCEPT !.host.failed = @ \/ call.op = "send"]
  /\ pc' = <<"send_139">>
  /\ loc' = LocInit
  /\ stats' = StatsInit
  /\ wire' = <<>>
  /\ UNCHANGED << status, serialPort, session, device, proto, mode, poll_ms, port_override,
                  previous_frame, force_full_frames_remaining, events, sinceRecover >>

\* app.py lines 313-314: after a send that returned, the budget is applied
HostApply ==
  /\ Idle /\ call.op = "send" /\ call.status = "returned"
  /\ \E budget \in env.budgets :
       /\ call' = [NewCall("apply_budget") EXCEPT !.budget = budget]
       /\ env' = [env EXCEPT !.host =
            IF budget.overloaded
              THEN [any |-> TRUE, all_over |-> ~@.any \/ @.all_over, calm |-> -1,
                    reached |-> FALSE, failed |-> FALSE]
            ELSE IF @.calm = -1
              THEN [any |-> TRUE, all_over |-> FALSE, calm |-> 0,
                    reached |-> FALSE, failed |-> FALSE]
            ELSE [@ EXCEPT !.calm = IF @ < 3 THEN @ + 1 ELSE @,
                           !.reached = @ \/ status.state = "Streaming",
                           !.failed = @ \/ call.recoveries > 0]]
  /\ pc' = <<"budget_122">>
  /\ loc' = LocInit
  /\ stats' = StatsInit
  /\ wire' = <<>>
  /\ UNCHANGED << status, serialPort, session, device, proto, mode, poll_ms, port_override,
                  previous_frame, force_full_frames_remaining, events, sinceRecover >>

NextHost ==
  \/ HostSend \/ HostApply
  \/ ConnectStep \/ DisconnectStep \/ SendStep \/ RecoverStep
  \/ Budget_122 \/ Budget_125 \/ Budget_126 \/ Budget_128 \/ Budget_135

SpecHost == InitHost /\ [][NextHost]_vars

\* ==================================================================== claims
SendReturned == Idle /\ call.op = "send" /\ call.status = "returned"
SendRecoverFailed ==
  Idle /\ call.op = "send" /\ call.status = "raised" /\ call.err = "recover_failed"
IsPixelWrite(w) == w.kind \in {"window", "pixels"}
FullFrameRect == [x |-> 0, y |-> 0, w |-> Width, h |-> Height]

\* C1: every window header or pixel chunk written to the transport goes to a port
\* that, since it was opened, has received HELLO and then SET_ORIENTATION.
C1_HandshakeBeforePixels ==
  [][(wire' # wire /\ wire' # <<>> /\ IsPixelWrite(wire'[Len(wire')]))
       => (session = "ready" /\ serialPort # NoPort)]_vars

C1_Witness ==
  /\ call.op = "send"
  /\ \E i \in 1..Len(wire) : wire[i].kind = "window" /\ wire[i].data[6] = CMD_DISPLAY_BITMAP
  /\ session = "ready"

\* C2: when send(frame) has returned normally the controller is connected,
\* previous_frame is that frame, and the state is Streaming when the forced-full
\* countdown is 0 and Degraded otherwise.
C2_SendPostcondition ==
  SendReturned =>
    /\ status.connected
    /\ previous_frame = call.frame
    /\ status.state \in {"Streaming", "Degraded"}
    /\ (status.state = "Streaming") <=> (force_full_frames_remaining = 0)

C2_Witness == SendReturned /\ call.recoveries = 1 /\ status.state = "Degraded"

C3_WaitsOfFailedRecovery == [k \in 1..MaxRecoverAttempts |-> k]

\* C3: when every reconnect fails the recovery loop logs recover_wait for the
\* attempts 1, 2, 3, 4, 5 and no more, send raises the recover-failed error with
\* connected false and state Recovering, and a send in progress always ends.
C3_FiveAttemptsThenRaise ==
  /\ [](/\ Len(call.waits) <= 5
        /\ call.waits = SubSeq(C3_WaitsOfFailedRecovery, 1, Len(call.waits))
        /\ SendRecoverFailed =>
             /\ call.waits = <<1, 2, 3, 4, 5>>
             /\ ~status.connected
             /\ status.state = "Recovering")
  /\ ((call.op = "send" /\ call.status = "running") ~> Idle)

C3_Witness == SendRecoverFailed /\ call.waits = <<1, 2, 3, 4, 5>>

\* C4 as claimed: after send has surfaced RecoverFailed the state is Disconnected.
C4_LeftDisconnected == SendRecoverFailed => status.state = "Disconnected"

\* C4 as amended: after send has surfaced RecoverFailed the controller is not
\* connected and holds no previous frame, and its state is Recovering.
C4_LeftRecovering ==
  SendRecoverFailed =>
    /\ status.state = "Recovering"
    /\ ~status.connected
    /\ previous_frame = NoFrame

C4_Witness == SendRecoverFailed /\ serialPort # NoPort

\* the state a send leaves when it is the k-th to return since the last recovery
C5_AfterKth ==
  /\ sinceRecover.n = 0 =>
       force_full_frames_remaining = ForceAfterRecover /\ status.state = "Degraded"
  /\ sinceRecover.n \in 1..3 =>
       /\ stats.mode = "full"
       /\ SelectSeq(wire, IsPixelWrite)
            = FrameWrites(call.frame, Width, Height, proto.chunk_size)
       /\ status.state = IF sinceRecover.n = 3 THEN "Streaming" ELSE "Degraded"

C6_SingleRetry ==
  /\ call.recoveries <= 1
  /\ SendReturned =>
       /\ stats.retries = call.recoveries
       /\ call.recoveries = 1 =>
            /\ stats.mode = "full"
            /\ wire = << [kind |-> "hello", data |-> HelloPayload],
                         [kind |-> "orientation", data |-> OrientationPayload(Width, Height)] >>
                      \o FrameWrites(call.frame, Width, Height, proto.chunk_size)

C6_Witness == SendReturned /\ call.recoveries = 1 /\ stats.retries = 1

\* C7: a send with a frame of the wrong length, on a controller that was connected
\* when it was called (the send has opened no port: no HELLO among its writes),
\* never enters the recovery loop.
C7_InvalidFrameNotRetried ==
  [][(/\ call.op = "send" /\ call.status = "running"
      /\ Len(call.frame) # FrameLen
      /\ \A i \in 1..Len(wire) : wire[i].kind # "hello")
       => call'.recoveries = call.recoveries]_vars

\* C8: _send_once sends a full frame and decrements the countdown when it is
\* positive; otherwise, in adaptive mode with a previous frame, it takes the
\* dirty-rect path exactly when the differ's result is neither empty nor the one
\* full-frame rect; in every other case it sends a full frame.
C8_PathChosen ==
  [][(At("once_176") /\ pc' # pc /\ Len(call.frame) = FrameLen) =>
       IF force_full_frames_remaining > 0
         THEN /\ force_full_frames_remaining' = force_full_frames_remaining - 1
              /\ Head(pc') = "frame_145"
       ELSE /\ force_full_frames_remaining' = force_full_frames_remaining
            /\ Head(pc') \in {"frame_145", "dirty_165"}
            /\ (Head(pc') = "dirty_165") <=>
                 /\ mode = "adaptive"
                 /\ previous_frame # NoFrame
                 /\ LET rects == ComputeDirtyRects(previous_frame, call.frame,
                                                   Width, Height, Tile)
                    IN rects # <<>> /\ rects # <<FullFrameRect>>]_vars

C8_Witness ==
  /\ At("dirty_172") /\ stats.mode = "dirty" /\ loc.wi > 1
  /\ wire[1].kind = "window"

\* C9: in adaptive mode with no forced-full countdown, a send of a frame equal to
\* the previous frame writes no window header and no pixels.
C9_UnchangedFrameNotSent ==
  (call.op = "send" /\ call.diff = "empty") => SelectSeq(wire, IsPixelWrite) = <<>>

\* C10: in every state, the intermediate ones included, state = Streaming implies
\* connected and the transport open.
C10_StreamingImpliesOpen ==
  status.state = "Streaming" => (status.connected /\ serialPort # NoPort)

\* C11: in every state, the intermediate ones included, backoff_seconds > 0 exactly
\* when the state is BackoffWait.
C11_BackoffIffWaiting == (status.backoff_ms > 0) <=> (status.state = "BackoffWait")

\* C12: recovery_attempts is always in 0..5, and it is 0 when connect, disconnect
\* or send has returned normally.
C12_RecoveryAttemptsRange ==
  /\ status.recovery_attempts \in 0..5
  /\ (Idle /\ call.status = "returned" /\ call.op \in {"connect", "disconnect", "send"})
       => status.recovery_attempts = 0

C12_Witness == SendReturned /\ call.waits = <<1, 2, 3, 4, 5>> /\ status.recovery_attempts = 0

C13_Ladder == <<250, 500, 1000, 2000, 4000>>

\* C13: the backoff stored for the n-th attempt, and logged and slept, is the n-th
\* rung of 0.25, 0.5, 1, 2, 4 seconds plus a jitter of at most 0.15 s, and the
\* attempts of the recover_wait events of one send count 1, 2, 3, ...
C13_BackoffSchedule ==
  /\ (At("rec_196") \/ At("rec_200")) =>
       /\ loc.attempt \in 1..5
       /\ status.recovery_attempts = loc.attempt
       /\ status.backoff_ms >= C13_Ladder[loc.attempt]
       /\ status.backoff_ms <= C13_Ladder[loc.attempt] + 150
  /\ At("rec_200") =>
       /\ events[Len(events)].event = "recover_wait"
       /\ events[Len(events)].attempt = loc.attempt
       /\ events[Len(events)].wait_ms = status.backoff_ms
  /\ \A i \in 1..Len(call.waits) : call.waits[i] = i

C13_Witness ==
  At("rec_200") /\ loc.attempt = 5 /\ status.backoff_ms = 4150 /\ call.waits = <<1, 2, 3, 4, 5>>

\* C14: when apply_budget with an overloaded budget has returned the state is
\* Degraded and the countdown is max(previous value, 2), and the countdown only
\* ever goes down by one, in a _send_once that then sends a full frame: so the
\* next 2 transmissions at least are full frames, and a countdown of 3 stays 3.
C14_OverloadForcesFullFrames ==
  /\ []((Idle /\ call.op = "apply_budget" /\ call.budget.overloaded)
          => (status.state = "Degraded" /\ force_full_frames_remaining >= 2))
  /\ [][(At("budget_126") /\ pc' # pc) =>
          force_full_frames_remaining'
            = IF force_full_frames_remaining >= 2 THEN force_full_frames_remaining ELSE 2]_vars
  /\ [][force_full_frames_remaining' < force_full_frames_remaining =>
          /\ At("once_176")
          /\ force_full_frames_remaining' = force_full_frames_remaining - 1
          /\ Head(pc') = "frame_145"]_vars

C14_Witness ==
  /\ Idle /\ call.op = "apply_budget" /\ call.budget.overloaded
  /\ force_full_frames_remaining = 3 /\ status.state = "Degraded" /\ status.connected

C18_DisconnectEvent == [state |-> "Disconnected", event |-> "disconnect"]

\* C18: when disconnect has returned the transport is closed, connected is false,
\* the state is Disconnected, previous_frame is null, backoff_seconds and
\* recovery_attempts are 0 and the log ends with the one disconnect event it
\* appended; previous_frame stays null until a send has succeeded, and no
\* dirty-rect transmission runs without a previous frame.
C18_DisconnectPostcondition ==
  /\ []((Idle /\ call.op = "disconnect" /\ call.status = "returned") =>
          /\ serialPort = NoPort
          /\ ~status.connected
          /\ status.state = "Disconnected"
          /\ previous_frame = NoFrame
          /\ status.backoff_ms = 0
          /\ status.recovery_attempts = 0
          /\ events # <<>> /\ events[Len(events)] = C18_DisconnectEvent)
  /\ [][(call.op = "disconnect" /\ events' # events) =>
          /\ At("disc_111")
          /\ events' = LastN(Append(events, C18_DisconnectEvent), env.max_events)]_vars
  /\ [][(previous_frame = NoFrame /\ previous_frame' # NoFrame) => At("send_164")]_vars
  /\ []((At("dirty_165") \/ At("dirty_172")) => previous_frame # NoFrame)

C18_Witness ==
  /\ Idle /\ call.op = "disconnect" /\ call.status = "returned"
  /\ Len(events) = 2 /\ events[1].event = "send_ok" /\ events[1].state = "Streaming"


\* the port the claim names for an enumeration result and an override
C19_Resolved(devices, override) ==
  LET byVid == {i \in 1..Len(devices) : devices[i].vid = 6790 /\ devices[i].pid = 22306}
      byMarker == {i \in 1..Len(devices) : devices[i].marker}
  IN IF override # NoPort THEN override
     ELSE IF byVid # {} THEN devices[SetMin(byVid)].device
     ELSE IF byMarker # {} THEN devices[SetMin(byMarker)].device
     ELSE NoPort

C19_Enumerated == CHOOSE devices \in env.devices : TRUE

\* C19: when connect returns normally, connected is true, the state is Ready,
\* recovery_attempts and backoff_seconds are 0, last_error is null, status.port is
\* the override when set, else the first VID 0x1A86 / PID 0x5722 device, else the
\* first device with the hwid marker, and connect has written HELLO and then
\* SET_ORIENTATION; with no override and no such device connect raises and leaves
\* the state Disconnected.
C19_ConnectPostcondition ==
  [][(call.op = "connect" /\ call.status = "running" /\ pc' = <<>>) =>
       LET expected == C19_Resolved(C19_Enumerated, port_override)
       IN /\ call'.status = "returned" =>
               /\ status'.connected
               /\ status'.state = "Ready"
               /\ status'.recovery_attempts = 0
               /\ status'.backoff_ms = 0
               /\ status'.last_error = NoError
               /\ expected # NoPort
               /\ status'.port = expected
               /\ wire' = << [kind |-> "hello", data |-> HelloPayload],
                             [kind |-> "orientation",
                              data |-> OrientationPayload(Width, Height)] >>
          /\ expected = NoPort =>
               /\ call'.status = "raised"
               /\ call'.err = "nodevice"
               /\ status'.state = "Disconnected"]_vars

C19_Witness ==
  /\ Idle /\ call.op = "connect" /\ call.status = "returned"
  /\ port_override = NoPort /\ status.port = "p1" /\ Len(C19_Enumerated) = 3


\* C20: for all inputs of PerformanceController.sample the returned
\* recommended_poll_ms lies in 200..2000.
C20_SampledPollInRange ==
  call.op = "sample" => call.budget.recommended_poll_ms \in 200..2000

\* C16: a thread reading status never sees a half-made transition: never connected
\* false together with state Streaming, and never state Recovering together with a
\* positive backoff
C16_NoPartialStatus ==
  /\ ~(status.state = "Streaming" /\ ~status.connected)
  /\ ~(status.state = "Recovering" /\ status.backoff_ms > 0)
C15_IsPrefix(a, b) == Len(a) <= Len(b) /\ SubSeq(b, 1, Len(a)) = a

C15_Witness ==
  /\ env.waiting # {}
  /\ call.op = "send" /\ call.status = "running"
  /\ At("frame_152")
  /\ wire # <<>> /\ wire[Len(wire)].kind = "window"

\* C15: operations called from several threads run one at a time: while one is in
\* flight no other begins (the call in flight stays the same and its writes only
\* grow, until it closes the port itself), a thread waiting for the lock changes
\* nothing, every pixel chunk on the wire directly follows its window header or
\* another chunk, and the lock is free again once the operation has returned or
\* raised, so that a waiting call can begin
C15_OneAtATime ==
  /\ [](call.status = "running" <=> ~Idle)
  /\ []((call.status = "raised" /\ env.waiting # {}) => ENABLED AcquireBlocked)
  /\ [](\A i \in 1..Len(wire) :
          wire[i].kind = "pixels"
            => i > 1 /\ wire[i - 1].kind \in {"window", "pixels"})
  /\ [][call.status = "running"
          => /\ call'.op = call.op
             /\ call'.thread = call.thread
             /\ call'.frame = call.frame
             /\ \/ C15_IsPrefix(wire, wire')
                \/ At("disc_105") /\ wire' = <<>>]_vars
  /\ [][env.waiting \subseteq env'.waiting /\ env'.waiting # env.waiting
          => UNCHANGED << pc, call, status, serialPort, session, device, proto,
                          previous_frame, force_full_frames_remaining, events,
                          wire >>]_vars

C17_Witness ==
  /\ Idle
  /\ call.op = "disconnect" /\ call.thread = "t2" /\ call.status = "returned"
  /\ Len(events) = 2
  /\ events[1].event = "recover_error" /\ events[1].attempt = MaxRecoverAttempts
  /\ events[2].event = "disconnect"

\* C17: a disconnect called by another thread during a send starts only after
\* that send has returned or raised; while a send is in flight the transport is
\* closed only by a step of that send itself (its recovery), and once disconnect
\* has returned the state is Disconnected, connected is false and the port is
\* closed
C17_DisconnectWaitsForSend ==
  /\ [][env'.waiting # env.waiting /\ env'.waiting \subseteq env.waiting
          => Idle /\ call.status \in {"returned", "raised"}]_vars
  /\ [][(/\ call.op = "send" /\ call.status = "running"
          /\ serialPort # NoPort /\ serialPort' = NoPort)
          => /\ call'.op = "send" /\ call'.thread = call.thread
             /\ env'.waiting = env.waiting
             /\ Len(pc) > 1]_vars
  /\ []((Idle /\ call.op = "disconnect" /\ call.status = "returned")
          => /\ status.state = "Disconnected"
             /\ ~status.connected
             /\ serialPort = NoPort)

\* the inverse bit layout of a 6-byte header
C21_Unpack(b) ==
  << b[6],
     b[1] * 4 + (b[2] \div 64),
     (b[2] % 64) * 16 + (b[3] \div 16),
     (b[3] % 16) * 64 + (b[4] \div 4),
     (b[4] % 4) * 256 + b[5] >>

C21_Witness ==
  /\ call.op = "pack"
  /\ call.args = <<CMD_DISPLAY_BITMAP, 0, 0, 799, 479>>
  /\ call.result = <<0, 0, 12, 125, 223, 197>>

\* C21: for coordinates in 0..1023 _pack_command returns 6 bytes from which the
\* inverse bit layout recovers (cmd, x, y, ex, ey), so that packing is injective;
\* DISPLAY_BITMAP (0, 0, 799, 479) packs to 00 00 0C 7D DF C5; a negative
\* coordinate raises and nothing is packed
C21_PackInvertible ==
  (call.op = "pack" /\ call.status # "called") =>
    IF \E i \in 2..5 : call.args[i] < 0
      THEN call.status = "raised" /\ call.result = <<>>
      ELSE /\ call.status = "returned"
           /\ Len(call.result) = 6
           /\ \A i \in 1..6 : call.result[i] \in 0..255
           /\ C21_Unpack(call.result) = call.args
           /\ (call.args = <<CMD_DISPLAY_BITMAP, 0, 0, 799, 479>>
                 => call.result = <<0, 0, 12, 125, 223, 197>>)

RECURSIVE C22_Concat(_)
C22_Concat(ws) == IF ws = <<>> THEN <<>> ELSE Head(ws).data \o C22_Concat(Tail(ws))

C22_Witness ==
  /\ call.op = "send_frame" /\ call.status = "returned" /\ call.frame = FrameB
  /\ proto.chunk_size = 4
  /\ Len(wire) = 9 /\ Len(wire[9].data) = 2

\* C22: send_frame of a frame of Width*Height*2 bytes writes the window header of
\* (0, 0, Width-1, Height-1), then the frame's bytes in order in chunks of
\* chunk_size (the last one may be shorter): 6 + len bytes in 1 + ceil(len /
\* chunk_size) writes, which SendStats reports with mode "full", and the protocol
\* state becomes Streaming; a frame of another length raises with nothing written
C22_SendFrameWrites ==
  /\ (call.op = "send_frame" /\ call.status = "returned")
       => /\ Len(call.frame) = FrameLen
          /\ wire[1] = [kind |-> "window",
                        data |-> PackCommand(CMD_DISPLAY_BITMAP, 0, 0, Width - 1, Height - 1)]
          /\ C22_Concat(Tail(wire)) = call.frame
          /\ \A i \in 2..Len(wire) :
               /\ wire[i].kind = "pixels"
               /\ Len(wire[i].data) \in 1..proto.chunk_size
               /\ i < Len(wire) => Len(wire[i].data) = proto.chunk_size
          /\ Len(wire) = 1 + ((FrameLen + proto.chunk_size - 1) \div proto.chunk_size)
          /\ stats = [StatsInit EXCEPT !.mode = "full", !.bytes_sent = 6 + FrameLen,
                                       !.packets_sent = Len(wire)]
          /\ proto.state = "Streaming"
  /\ (call.op = "send_frame" /\ Len(call.frame) # FrameLen)
       => /\ wire = <<>>
          /\ call.status = "raised" => call.err = "size"
          /\ call.status # "returned"
          /\ proto.state = "Disconnected"
\* the pixels (x, y) at which two frames of the call differ
C23_DiffPixels ==
  LET a == call.args
  IN { p \in (0..(a.width - 1)) \X (0..(a.height - 1)) :
         \E b \in 1..2 :
           a.previous_frame[(p[2] * a.width + p[1]) * 2 + b]
             # a.current_frame[(p[2] * a.width + p[1]) * 2 + b] }

C23_Witness ==
  /\ call.op = "diff" /\ call.status = "returned"
  /\ call.args.width = 3 /\ call.args.tile = 2
  /\ call.args.previous_frame = call.args.current_frame
  /\ call.args.previous_frame[1] = 1
  /\ call.result = <<>>

\* C23: for frames of equal length width*height*2 and every tile size, also one
\* that does not divide the width or the height, compute_dirty_rects returns the
\* empty list exactly when the two frames are equal
C23_EmptyIffEqual ==
  (call.op = "diff" /\ call.status # "called")
    => /\ call.status = "returned"
       /\ (call.result = <<>>) <=> (call.args.previous_frame = call.args.current_frame)

C24_InRect(p, r) == p[1] \in r.x..(r.x + r.w - 1) /\ p[2] \in r.y..(r.y + r.h - 1)

\* frame A with the pixels of rect r taken from frame B
C24_Patched(r) ==
  LET a == call.args
  IN [i \in 1..Len(a.previous_frame) |->
        IF C24_InRect(<<((i - 1) \div 2) % a.width, ((i - 1) \div 2) \div a.width>>, r)
          THEN a.current_frame[i] ELSE a.previous_frame[i]]

C24_Witness ==
  /\ call.op = "diff" /\ call.status = "returned"
  /\ call.args.width = 4 /\ call.args.height = 3 /\ call.args.tile = 2
  /\ call.result = << [x |-> 2, y |-> 2, w |-> 2, h |-> 1] >>

\* C24: for different frames compute_dirty_rects returns exactly one rect, with
\* positive width and height, inside the frame, that contains every pixel at
\* which the frames differ: the previous frame with the rect's pixels taken from
\* the current frame is the current frame
C24_OneCoveringRect ==
  (call.op = "diff" /\ call.status # "called"
     /\ call.args.previous_frame # call.args.current_frame)
    => /\ Len(call.result) = 1
       /\ LET r == call.result[1]
          IN /\ r.w > 0 /\ r.h > 0 /\ r.x >= 0 /\ r.y >= 0
             /\ r.x + r.w <= call.args.width
             /\ r.y + r.h <= call.args.height
             /\ \A p \in C23_DiffPixels : C24_InRect(p, r)
             /\ C24_Patched(r) = call.args.current_frame

\* the origins of the tiles that hold a differing pixel, and the size of the grid
C25_ChangedTiles ==
  { <<p[1] - (p[1] % call.args.tile), p[2] - (p[2] % call.args.tile)>> :
      p \in C23_DiffPixels }
C25_GridTiles ==
  ((call.args.width + call.args.tile - 1) \div call.args.tile)
    * ((call.args.height + call.args.tile - 1) \div call.args.tile)

C25_Witness ==
  /\ call.op = "diff" /\ call.status = "returned"
  /\ call.args.width = 3 /\ call.args.height = 2 /\ call.args.tile = 2
  /\ C25_ChangedTiles = {<<2, 0>>}
  /\ call.result = << [x |-> 0, y |-> 0, w |-> 3, h |-> 2] >>

\* C25: when the changed tiles are more than max_ratio (35 percent) of the tiles
\* of the grid, compute_dirty_rects returns the single rect (0, 0, width, height),
\* also when the tile size does not divide the width or the height
C25_FullRectOverRatio ==
  (call.op = "diff" /\ call.status # "called"
     /\ Cardinality(C25_ChangedTiles) * 100 > MaxRatioPct * C25_GridTiles)
    => call.result = << [x |-> 0, y |-> 0, w |-> call.args.width,
                         h |-> call.args.height] >>

\* C26: connect ends according to the handshake: when it returns, the last two
\* writes are the HELLO bytes and the 16-byte SET_ORIENTATION record (byte 6 =
\* 102, width and height big-endian in bytes 7..10, bytes 11..15 zero) and the
\* sub-revision is a table entry or "unknown"; when the handshake raises on an
\* echo of length 1..5, no SET_ORIENTATION is written, the sub-revision is
\* "unknown" and connected is false
C26_HandshakeOutcome ==
  /\ (Idle /\ call.op = "connect" /\ call.status = "returned")
       => /\ Len(wire) = 2
          /\ wire[1] = [kind |-> "hello", data |-> <<69, 69, 69, 69, 69, 69>>]
          /\ wire[2].kind = "orientation"
          /\ wire[2].data = <<0, 0, 0, 0, 0, 121, 102,
                              (Width \div 256) % 256, Width % 256,
                              (Height \div 256) % 256, Height % 256, 0, 0, 0, 0, 0>>
          /\ proto.sub_revision
               \in {"usbmonitor_3_5", "usbmonitor_5", "usbmonitor_7", "unknown"}
          /\ status.connected
  /\ (Idle /\ call.op = "connect" /\ call.status = "raised" /\ call.err = "handshake")
       => /\ wire = << [kind |-> "hello", data |-> <<69, 69, 69, 69, 69, 69>>] >>
          /\ proto.sub_revision = "unknown"
          /\ ~status.connected
\* C27: for a percent in 0..100 set_brightness writes one header with cmd 0x6E,
\* y = ex = ey = 0 and x = 255 - round(percent * 255 / 100), rounded to the
\* nearest integer
C27_BrightnessRounded ==
  (call.op = "brightness" /\ call.status = "returned" /\ call.args \in 0..100)
    => call.result = PackCommand(CMD_SET_BRIGHTNESS,
                                 255 - (((call.args * 255) + 50) \div 100), 0, 0, 0)
\* the records of the three kinds in the transcript of the call, as the claim
\* names them
C28_Hellos ==
  {i \in 1..Len(call.args.events) : call.args.events[i].payload = <<69, 69, 69, 69, 69, 69>>}
C28_WithByte5(cmd) ==
  {i \in 1..Len(call.args.events) :
     /\ Len(call.args.events[i].payload) >= 6
     /\ call.args.events[i].payload[6] = cmd}

C28_Witness ==
  /\ call.op = "replay" /\ call.status = "returned" /\ call.args.strict
  /\ Len(call.args.events) = 3
  /\ C28_Hellos = {1} /\ C28_WithByte5(121) = {2} /\ C28_WithByte5(197) = {3}
  /\ call.result.errors = <<>>

\* C28: in strict mode the report's errors are missing_hello, missing_orientation,
\* missing_window for exactly those of the three kinds (HELLO: six 0x45 bytes;
\* SET_ORIENTATION: byte 5 is 0x79; DISPLAY_BITMAP: byte 5 is 0xC5) that no
\* record of the transcript has, so none when all three occur; HELLO is tested
\* first, then byte 5, and every other non-empty payload is a pixel packet
C28_StrictErrors ==
  (call.op = "replay" /\ call.status = "returned")
    => LET r == call.result
           n == Len(call.args.events)
           empties == {i \in 1..n : call.args.events[i].payload = <<>>}
       IN /\ r.hello_count = Cardinality(C28_Hellos)
          /\ r.orientation_count = Cardinality(C28_WithByte5(121))
          /\ r.window_count = Cardinality(C28_WithByte5(197))
          /\ r.payload_packets
               = n - Cardinality(empties \union C28_Hellos \union C28_WithByte5(121)
                                   \union C28_WithByte5(197))
          /\ call.args.strict
               => /\ \A e \in {"missing_hello", "missing_orientation", "missing_window"} :
                       (\E i \in 1..Len(r.errors) : r.errors[i] = e)
                         <=> \/ e = "missing_hello" /\ C28_Hellos = {}
                             \/ e = "missing_orientation" /\ C28_WithByte5(121) = {}
                             \/ e = "missing_window" /\ C28_WithByte5(197) = {}
                  /\ Len(r.errors) <= 3
                  /\ \A i \in 1..Len(r.errors) :
                       r.errors[i] \in {"missing_hello", "missing_orientation", "missing_window"}
\* C29: after a reconnect by disconnect() and connect(), the first three frames
\* sent are full frames: in the event log, the send_ok events that directly follow
\* disconnect, connect_start, connect_ok (up to three of them) have mode "full"
C29_FullFramesAfterReconnect ==
  \A i \in 1..Len(events) :
    (/\ i + 2 <= Len(events)
     /\ events[i].event = "disconnect"
     /\ events[i + 1].event = "connect_start"
     /\ events[i + 2].event = "connect_ok")
      => \A j \in (i + 3)..Min2(i + 5, Len(events)) :
           (\A k \in (i + 3)..j : events[k].event = "send_ok")
             => events[j].mode = "full"

\* C30: after send has raised RecoverFailed, a later send does not open the port
\* or write to it: while a send that has not itself entered recovery runs and the
\* log ends with the fifth recover_error, followed at most by that send's
\* connect_start, no step changes the port or adds a write
C30_PausedAfterRecoverFailed ==
  [][(/\ call.op = "send" /\ call.status = "running" /\ call.recoveries = 0
      /\ \E n \in 1..Len(events) :
           /\ events[n].event = "recover_error"
           /\ events[n].attempt = MaxRecoverAttempts
           /\ \A k \in (n + 1)..Len(events) : events[k].event = "connect_start")
       => serialPort' = serialPort /\ wire' = wire]_vars

\* the event at position i of the log, or one with no name beyond its end
C31_At(i) == IF i \in 1..Len(events) THEN events[i] ELSE [event |-> "", state |-> "", attempt |-> 0]

C31_Witness ==
  /\ SendReturned /\ call.waits = <<1, 2>>
  /\ Len(events) = 14
  /\ events[4].event = "send_error" /\ events[8].event = "recover_error"
  /\ events[12].event = "connect_ok" /\ events[13].event = "recover_ok"
  /\ events[14].event = "send_ok" /\ events[14].state = "Degraded"

\* C31: events are appended in the order of the transitions, each with the state
\* in force when it was appended: a send that fails logs send_error (Recovering),
\* then per attempt i = 1, 2, ... recover_wait (BackoffWait, attempt i),
\* disconnect, connect_start and either recover_error (attempt i, and the next
\* attempt follows) or connect_ok and recover_ok (attempt i, Degraded), followed
\* by send_ok when the send returns; send_ok is logged only by the step in which
\* send returns
C31_EventOrder ==
  /\ [][events' # events =>
          /\ events' = Append(events, events'[Len(events')])
          /\ events'[Len(events')].state = status.state
          /\ status' = status]_vars
  /\ [][(events' # events /\ events'[Len(events')].event = "send_ok")
          => call.op = "send" /\ call'.status = "returned"]_vars
  /\ [](\A i \in 1..Len(events) :
          /\ events[i].event = "send_error" =>
               /\ events[i].state = "Recovering"
               /\ C31_At(i + 1).event \in {"recover_wait", ""}
               /\ C31_At(i + 1).event = "recover_wait" => events[i + 1].attempt = 1
          /\ events[i].event = "recover_wait" =>
               /\ events[i].state = "BackoffWait"
               /\ events[i].attempt \in 1..MaxRecoverAttempts
               /\ C31_At(i - 1).event
                    = IF events[i].attempt = 1 THEN "send_error" ELSE "recover_error"
               /\ C31_At(i + 1).event \in {"disconnect", ""}
               /\ C31_At(i + 2).event \in {"connect_start", ""}
               /\ C31_At(i + 3).event \in {"recover_error", "connect_ok", ""}
               /\ C31_At(i + 3).event = "recover_error" =>
                    events[i + 3].attempt = events[i].attempt
               /\ C31_At(i + 3).event = "connect_ok" =>
                    /\ C31_At(i + 4).event \in {"recover_ok", ""}
                    /\ C31_At(i + 4).event = "recover_ok" =>
                         /\ events[i + 4].attempt = events[i].attempt
                         /\ events[i + 4].state = "Degraded"
                    /\ C31_At(i + 5).event \in {"send_ok", ""}
          /\ events[i].event = "recover_error" =>
               /\ C31_At(i - 3).event = "recover_wait"
               /\ C31_At(i + 1).event \in {"recover_wait", ""}
               /\ C31_At(i + 1).event = "recover_wait" =>
                    events[i + 1].attempt = events[i].attempt + 1
          /\ events[i].event = "recover_ok" => C31_At(i - 4).event = "recover_wait")
  /\ [](SendReturned =>
          /\ events[Len(events)].event = "send_ok"
          /\ call.recoveries = 1 =>
               /\ events[Len(events) - 1].event = "recover_ok"
               /\ events[Len(events) - 1].attempt = Len(call.waits))
  /\ []((Idle /\ call.op = "send" /\ call.status = "raised")
          => events[Len(events)].event # "send_ok")

\* the window headers among the writes, where the pixel writes of a header end,
\* and the bytes of those writes
C32_Headers == {i \in 1..Len(wire) : wire[i].kind = "window"}
C32_End(i) ==
  IF \E j \in C32_Headers : j > i THEN SetMin({j \in C32_Headers : j > i})
  ELSE Len(wire) + 1
C32_Payload(i) == C22_Concat(SubSeq(wire, i + 1, C32_End(i) - 1))

\* rows y0..y1 of the frame, each from pixel x0 to pixel x1, in row order
C32_RectBytes(frame, x0, y0, x1, y1) ==
  LET row_len == (x1 - x0 + 1) * 2
  IN [k \in 1..(row_len * (y1 - y0 + 1)) |->
        frame[(y0 + ((k - 1) \div row_len)) * (Width * 2) + x0 * 2 + ((k - 1) % row_len) + 1]]

C32_Witness ==
  /\ call.op = "send_dirty_rects" /\ call.status = "returned"
  /\ Len(call.rects) = 2 /\ proto.chunk_size = 4
  /\ call.frame[FrameLen] = FrameLen
  /\ C32_Headers = {1, 4}
  /\ C32_Payload(1) = <<13, 14, 15, 16, 17, 18>>
  /\ Len(wire) = 7

\* C32: the pixel writes that follow a window header (x0, y0, x1, y1), up to the
\* next header or the end of the call, carry (x1-x0+1)*(y1-y0+1)*2 bytes: rows
\* y0..y1 of the source frame, each the bytes of pixels x0..x1, in row order;
\* send_dirty_rects writes one header per rect, in order, with x1 = x+w-1 and
\* y1 = y+h-1, and send_frame one header for the whole frame
C32_WindowThenItsPixels ==
  (call.op \in {"send_dirty_rects", "send_frame"}) =>
    /\ \A i \in C32_Headers :
         LET u == C21_Unpack(wire[i].data)
             expected == C32_RectBytes(call.frame, u[2], u[3], u[4], u[5])
         IN /\ u[1] = CMD_DISPLAY_BITMAP
            /\ u[2] <= u[4] /\ u[3] <= u[5]
            /\ C15_IsPrefix(C32_Payload(i), expected)
            /\ (C32_End(i) <= Len(wire) \/ call.status = "returned")
                 => /\ Len(C32_Payload(i)) = (u[4] - u[2] + 1) * (u[5] - u[3] + 1) * 2
                    /\ C32_Payload(i) = expected
            /\ call.op = "send_dirty_rects" =>
                 LET k == Cardinality({j \in C32_Headers : j <= i})
                 IN /\ k <= Len(call.rects)
                    /\ u = << CMD_DISPLAY_BITMAP, call.rects[k].x, call.rects[k].y,
                              call.rects[k].x + call.rects[k].w - 1,
                              call.rects[k].y + call.rects[k].h - 1 >>
            /\ call.op = "send_frame" =>
                 i = 1 /\ u = <<CMD_DISPLAY_BITMAP, 0, 0, Width - 1, Height - 1>>
    /\ \A i \in 1..Len(wire) : wire[i].kind \in {"window", "pixels"}
    /\ wire # <<>> => wire[1].kind = "window"
    /\ call.status = "returned" =>
         Cardinality(C32_Headers)
           = IF call.op = "send_frame" THEN 1 ELSE Len(call.rects)

\* C33: the chunk size is what the most recent apply_budget set (max(W*4, 256)
\* when overloaded, W*8 when not, W*8 before any apply_budget): it is W*8 at
\* construction, apply_budget sets it by its budget, and no step of any other
\* operation (connect, disconnect, send, recovery, set_brightness) changes it
C33_ChunkSizeByBudgetOnly ==
  /\ [](call.op = "none" => proto.chunk_size = Width * 8)
  /\ []((Idle /\ call.op = "apply_budget" /\ call.status = "returned")
          => proto.chunk_size = IF call.budget.overloaded
                                  THEN Max2(Width * 4, OverloadChunkFloor)
                                  ELSE Width * 8)
  /\ [][call'.op # "apply_budget" => proto'.chunk_size = proto.chunk_size]_vars

C34_Witness ==
  /\ Idle /\ call.op = "apply_budget" /\ call.status = "returned"
  /\ call.budget.warning = "resource_overload"
  /\ call.budget.recommended_poll_ms = 150 /\ poll_ms = 200

\* C34: sample decides in strict priority order: cpu > cpu_max or rss > rss_max
\* gives overloaded, resource_overload, mode adaptive and poll' = min(2000,
\* floor(poll*1.25)+25) whatever the fps; else fps < fps_min gives
\* below_fps_target and max(200, poll-50); else fps > fps_max gives
\* above_fps_target and min(2000, poll+50); else poll and mode unchanged with no
\* warning; and apply_budget stores poll' clamped to 200..2000
C34_SamplePriority ==
  /\ (call.op = "sample") =>
       LET a == call.args
           b == call.budget
       IN /\ b.overloaded <=> (b.cpu_percent > 8 \/ b.rss_mb > 300)
          /\ IF b.overloaded
               THEN /\ b.warning = "resource_overload"
                    /\ b.recommended_mode = "adaptive"
                    /\ b.recommended_poll_ms
                         = Min2(2000, ((a.poll_ms * 125) \div 100) + 25)
             ELSE IF a.fps < 5
               THEN /\ b.warning = "below_fps_target"
                    /\ b.recommended_mode = a.current_mode
                    /\ b.recommended_poll_ms = Max2(200, a.poll_ms - 50)
             ELSE IF a.fps > 10
               THEN /\ b.warning = "above_fps_target"
                    /\ b.recommended_mode = a.current_mode
                    /\ b.recommended_poll_ms = Min2(2000, a.poll_ms + 50)
             ELSE /\ b.warning = ""
                  /\ b.recommended_mode = a.current_mode
                  /\ b.recommended_poll_ms = a.poll_ms
  /\ (Idle /\ call.op = "apply_budget" /\ call.status = "returned") =>
       /\ poll_ms = Max2(200, Min2(2000, call.budget.recommended_poll_ms))
       /\ mode = call.budget.recommended_mode

\* C35: the log never holds more than its maximum (1,000 in the product), every
\* logging step leaves the last entries of the old log plus the new row, in
\* order, and recent_events(limit) returns, for every limit >= 0, the last
\* min(limit, length) entries of the log: at most limit entries
C35_LogTail ==
  /\ [](Len(events) <= env.max_events)
  /\ [][events' # events =>
          events' = LastN(Append(events, events'[Len(events')]), env.max_events)]_vars
  /\ []((call.op = "recent_events" /\ call.limit >= 0) =>
          LET n == Min2(call.limit, Len(events))
          IN /\ Len(call.result) <= call.limit
             /\ call.result = SubSeq(events, Len(events) - n + 1, Len(events)))

\* C37: whenever no public operation is in progress, connected is true exactly
\* when the state is Ready, Streaming or Degraded
C37_ConnectedIffLiveState ==
  Idle => (status.connected <=> status.state \in {"Ready", "Streaming", "Degraded"})

\* C38: when connect() has raised, connected is false, the state is Disconnected
\* and the transport is closed
C38_FailedConnectLeavesClosed ==
  (Idle /\ call.op = "connect" /\ call.status = "raised")
    => /\ ~status.connected
       /\ status.state = "Disconnected"
       /\ serialPort = NoPort

\* C40: whenever connected is true, status.port names the port the transport is
\* open on; stated for the states between two operations
C40_StatusPortIsOpenPort ==
  (Idle /\ status.connected) => (serialPort # NoPort /\ status.port = serialPort)

\* what the claim says of the host loop, given that no send has failed (nofail);
\* the first part speaks of the states outside apply_budget itself
C39_Loop(nofail) ==
  /\ (env.host.all_over /\ nofail /\ ~(call.op = "apply_budget" /\ ~Idle)) =>
       /\ status.state # "Streaming"
       /\ ~At("dirty_165") /\ ~At("dirty_172")
       /\ (call.op = "send" /\ At("frame_152")) => mode = "adaptive"
       /\ (Idle /\ call.op = "apply_budget") => force_full_frames_remaining >= 2
  /\ (SendReturned /\ env.host.calm = 2 /\ nofail) =>
       (status.state = "Streaming" \/ env.host.reached)

C36_Witness ==
  /\ SendReturned /\ stats.mode = "dirty" /\ call.frame = FrameB
  /\ device.win = <<0, 0, Tile - 1, Tile - 1>>
  /\ device.fb = FrameB /\ previous_frame = FrameB

\* C36: with the display's framebuffer changed by window and pixel writes only
\* and not known once the port is closed, a send(F) that returned leaves the
\* framebuffer equal to F, and between operations and where _send_once decides
\* how to transmit, a connected controller with a previous frame has a display
\* that holds exactly that frame
C36_DeviceHoldsPreviousFrame ==
  /\ SendReturned => device.fb = call.frame
  /\ ((Idle \/ At("once_176")) /\ status.connected /\ previous_frame # NoFrame)
       => device.fb = previous_frame
  /\ (At("dirty_172") /\ loc.wi = 1) => device.fb = previous_frame
====
